---- MODULE Spec2Model ----
(***************************************************************************)
(* Model of the rakumart client: the client-side Filter Engine             *)
(* (src/rakumart/filters.py and its older copy in src/main.py), the price  *)
(* conversion of src/rakumart/utils.py, and the search endpoint function   *)
(* with the presentation surfaces that call it.                            *)
(*                                                                         *)
(* Python values are modelled as tagged records, dicts as functions from   *)
(* key names to values, strings as sequences of one-character strings and  *)
(* numbers as fixed-point integers with Scale units per 1.                 *)
(***************************************************************************)
EXTENDS Integers, Sequences, FiniteSets, TLC

(***************************************************************************)
(* Bounds of the model.                                                    *)
(***************************************************************************)
\* longest product list handed to a filter
MaxProducts == 2
\* longest free-form price / weight string enumerated exhaustively
MaxStrLen == 3
\* longest product list handed to collect_categories_from_products
MaxFacetProducts == 4
\* the longest list given to enrich_products_with_detail
MaxEnrichProducts == 5
\* the longest list a console is opened on
MaxConsoleProducts == 2
\* the most attachments given to create_porder
MaxPorderFiles == 2
\* largest number held, in Scale units: a product beyond it is held as MaxNum,
\* which lies above every bound a filter is given
MaxNum == 2000000000

(***************************************************************************)
(* Python values.                                                          *)
(***************************************************************************)
\* units per 1.0: three decimals, the precision of the 453.592 literal
Scale == 1000

None == [t |-> "none", n |-> 0, s |-> <<>>, m |-> <<>>]
\* a number, given in Scale units
Num(x) == [t |-> "num", n |-> x, s |-> <<>>, m |-> <<>>]
\* a whole number
Whole(x) == Num(x * Scale)
\* a string, given as its sequence of characters
Str(x) == [t |-> "str", n |-> 0, s |-> x, m |-> <<>>]
\* a dict, given as a function from keys to values
Map(f) == [t |-> "map", n |-> 0, s |-> <<>>, m |-> f]
EmptyDict == <<>>
\* a list, given as the sequence of its elements
Lst(x) == [t |-> "list", n |-> 0, s |-> <<>>, m |-> x]

\* bool(v)
Truthy(v) ==
    CASE v.t = "none" -> FALSE
      [] v.t = "num" -> v.n # 0
      [] v.t = "str" -> v.s # <<>>
      [] v.t = "map" -> DOMAIN v.m # {}
      [] v.t = "list" -> v.m # <<>>

\* d.get(k) on a dict d
DictGet(d, k) == IF k \in DOMAIN d THEN d[k] ELSE None

\* d.get(k, {}) on a dict d
DictGetOrEmpty(d, k) == IF k \in DOMAIN d THEN d[k] ELSE Map(EmptyDict)

\* a or b or c ... over a non-empty sequence of values: the first truthy one,
\* else the last one
RECURSIVE OrChain(_)
OrChain(vs) ==
    IF Len(vs) = 1 \/ Truthy(Head(vs)) THEN Head(vs) ELSE OrChain(Tail(vs))

\* the outcome of an expression that may raise
Ok(x) == [ok |-> TRUE, exc |-> "", v |-> x]
Exc(e) == [ok |-> FALSE, exc |-> e, v |-> 0]

(***************************************************************************)
(* float() and int() of a Python value.                                    *)
(***************************************************************************)
DigitVal == "0" :> 0 @@ "1" :> 1 @@ "2" :> 2 @@ "3" :> 3 @@ "4" :> 4 @@
            "5" :> 5 @@ "6" :> 6 @@ "7" :> 7 @@ "8" :> 8 @@ "9" :> 9
IsDigit(c) == c \in DOMAIN DigitVal

RECURSIVE StripLeft(_)
StripLeft(s) == IF s # <<>> /\ Head(s) = " " THEN StripLeft(Tail(s)) ELSE s
RECURSIVE StripRight(_)
StripRight(s) ==
    IF s # <<>> /\ s[Len(s)] = " " THEN StripRight(SubSeq(s, 1, Len(s) - 1)) ELSE s
\* s.strip()
Strip(s) == StripRight(StripLeft(s))

\* the whole number written by a sequence of digits
RECURSIVE DigitsValue(_)
DigitsValue(ds) ==
    IF ds = <<>> THEN 0
    ELSE 10 * DigitsValue(SubSeq(ds, 1, Len(ds) - 1)) + DigitVal[ds[Len(ds)]]

\* the fraction written by the digits after the point, in Scale units
\* (digits beyond the resolution of Scale are dropped)
RECURSIVE FractionValue(_, _)
FractionValue(ds, unit) ==
    IF ds = <<>> \/ unit = 0 THEN 0
    ELSE DigitVal[Head(ds)] * unit + FractionValue(Tail(ds), unit \div 10)

\* the unsigned decimal literals float() accepts: digits with at most one
\* point and at least one digit (no exponent, inf or nan: the characters of
\* the model's strings cannot spell them)
\* the value of the decimal literal s whose point, if any, is at position p
DecimalValue(s, p) ==
    DigitsValue(SubSeq(s, 1, p - 1)) * Scale
        + FractionValue(SubSeq(s, p + 1, Len(s)), Scale \div 10)

\* s is a decimal literal whose points are at the positions dots
DecimalAt(s, dots) ==
    IF (\E i \in 1..Len(s) : ~IsDigit(s[i]) /\ s[i] # ".")
       \/ Cardinality(dots) > 1 \/ Len(s) = Cardinality(dots)
    THEN Exc("ValueError")
    ELSE Ok(DecimalValue(s, IF dots = {} THEN Len(s) + 1 ELSE CHOOSE i \in dots : TRUE))

UnsignedFloat(s) == DecimalAt(s, {i \in 1..Len(s) : s[i] = "."})

\* float(s) for a string s
\* the sign a stripped literal starts with: -1 or 1
SignOf(b) == IF b # <<>> /\ Head(b) = "-" THEN 0 - 1 ELSE 1
\* the stripped literal without its sign
Unsigned(b) == IF b # <<>> /\ Head(b) \in {"-", "+"} THEN Tail(b) ELSE b
\* the outcome r of the unsigned literal, with the sign applied
Signed(sign, r) == IF r.ok THEN Ok(sign * r.v) ELSE r

SignedFloat(b) == Signed(SignOf(b), UnsignedFloat(Unsigned(b)))

ParseFloat(s) == SignedFloat(Strip(s))

\* int(s) for a string s: an optionally signed run of digits
UnsignedInt(ds) ==
    IF ds = <<>> \/ \E i \in 1..Len(ds) : ~IsDigit(ds[i])
    THEN Exc("ValueError")
    ELSE Ok(DigitsValue(ds) * Scale)

SignedInt(b) == Signed(SignOf(b), UnsignedInt(Unsigned(b)))

ParseInt(s) == SignedInt(Strip(s))

\* float(v)
PyFloat(v) ==
    CASE v.t = "num" -> Ok(v.n)
      [] v.t = "str" -> ParseFloat(v.s)
      [] OTHER -> Exc("TypeError")

\* int(v): truncation toward zero for a number
PyInt(v) ==
    CASE v.t = "num" ->
            Ok(IF v.n >= 0 THEN (v.n \div Scale) * Scale
               ELSE 0 - (((0 - v.n) \div Scale) * Scale))
      [] v.t = "str" -> ParseInt(v.s)
      [] OTHER -> Exc("TypeError")

\* a * b for two non-negative fixed-point numbers
Mul(a, b) ==
    IF b # 0 /\ a \div Scale >= MaxNum \div b THEN MaxNum
    ELSE (a \div Scale) * b + ((a % Scale) * b) \div Scale

(***************************************************************************)
(* src/rakumart/utils.py                                                   *)
(***************************************************************************)
convert_rmb_to_jpy(rmb_price, exchange_rate) == Mul(rmb_price, exchange_rate)

PriceFields == <<"goodsPrice", "price", "productPrice", "salePrice", "marketPrice">>

\* re.sub(r'[^\d.,]', '', price)
KeepDigitsDotsCommas(s) == SelectSeq(s, LAMBDA c : IsDigit(c) \/ c \in {".", ","})

\* price_clean.replace(',', '.')
CommasToDots(s) == [i \in 1..Len(s) |-> IF s[i] = "," THEN "." ELSE s[i]]

\* the loop over price_fields: the first field that converts decides
\* the body of the loop for one field value: Ok(price_val) when the field
\* decides, or the reason the loop goes on to the next field
PriceVal(price) ==
    IF price.t = "none" THEN Exc("None")
    ELSE IF price.t = "str"
    THEN (IF KeepDigitsDotsCommas(price.s) = <<>> THEN Exc("empty")
          ELSE ParseFloat(CommasToDots(KeepDigitsDotsCommas(price.s))))
    ELSE PyFloat(price)

\* the loop over price_fields, given the outcome r of the first field
RECURSIVE PriceFromFields(_, _, _)
PriceStep(r, product, exchange_rate, fields) ==
    IF r.ok THEN Num(convert_rmb_to_jpy(r.v, exchange_rate))
    ELSE PriceFromFields(product, exchange_rate, Tail(fields))

PriceFromFields(product, exchange_rate, fields) ==
    IF fields = <<>> THEN None
    ELSE PriceStep(PriceVal(DictGet(product, Head(fields))), product, exchange_rate, fields)

get_product_price_in_jpy(product, exchange_rate) ==
    PriceFromFields(product, exchange_rate, PriceFields)

(***************************************************************************)
(* src/rakumart/filters.py                                                 *)
(*                                                                         *)
(* A filter returns Ok(list) or Exc(name) when an exception leaves it.     *)
(* The per-item operators return "keep", "drop" or the exception's name.   *)
(***************************************************************************)
\* Kept with the retained items in reverse order
Kept_reversed(products, outcomes) ==
    [i \in 1..Cardinality({j \in 1..Len(products) : outcomes[j] = "keep"}) |->
        products[CHOOSE j \in 1..Len(products) :
            /\ outcomes[j] = "keep"
            /\ Cardinality({k \in j..Len(products) : outcomes[k] = "keep"}) = i]]

\* "for product in products: ... filtered.append(product)": the loop stops
\* at the first item whose body raises
\* the list of the kept items, given the outcome of the body for each item
Kept(products, outcomes) ==
    [i \in 1..Cardinality({j \in 1..Len(products) : outcomes[j] = "keep"}) |->
        products[CHOOSE j \in 1..Len(products) :
            /\ outcomes[j] = "keep"
            /\ Cardinality({k \in 1..j : outcomes[k] = "keep"}) = i]]

LoopResult(products, outcomes) ==
    IF \E i \in 1..Len(products) : outcomes[i] \notin {"keep", "drop"}
    THEN Exc(outcomes[CHOOSE i \in 1..Len(products) :
                 /\ outcomes[i] \notin {"keep", "drop"}
                 /\ \A j \in 1..(i - 1) : outcomes[j] \in {"keep", "drop"}])
    ELSE Ok(Kept(products, outcomes))

\* "if max is not None and value is not None and float(value) > max: continue"
\* r is the outcome of float(value)
Above(r, maxv) == IF ~r.ok THEN r.exc ELSE IF r.v > maxv.n THEN "drop" ELSE "pass"

DimensionCheck(maxv, value) ==
    IF maxv.t # "none" /\ value.t # "none" THEN Above(PyFloat(value), maxv) ELSE "pass"

\* the body of the loop of filter_products_by_size
\* the first check that does not pass decides; "keep" when all pass
FirstFailing(c1, c2, c3) ==
    IF c1 # "pass" THEN c1 ELSE IF c2 # "pass" THEN c2 ELSE IF c3 # "pass" THEN c3
    ELSE "keep"

\* the body of the loop once length, width and height are read
SizeChecks(length, width, height, max_length, max_width, max_height, strict_mode) ==
    IF strict_mode /\ (\/ length.t = "none" /\ max_length.t # "none"
                       \/ width.t = "none" /\ max_width.t # "none"
                       \/ height.t = "none" /\ max_height.t # "none")
    THEN "drop"
    ELSE FirstFailing(DimensionCheck(max_length, length), DimensionCheck(max_width, width),
                      DimensionCheck(max_height, height))

\* the body of the loop once dimensions is read ("chang", "kuan" and "gao"
\* stand for the Chinese key names of the source)
SizeOfDimensions(dimensions, max_length, max_width, max_height, strict_mode) ==
    IF dimensions.t # "map" THEN "AttributeError"
    ELSE SizeChecks(
           OrChain(<<DictGet(dimensions.m, "length"), DictGet(dimensions.m, "l"),
                     DictGet(dimensions.m, "chang")>>),
           OrChain(<<DictGet(dimensions.m, "width"), DictGet(dimensions.m, "w"),
                     DictGet(dimensions.m, "kuan")>>),
           OrChain(<<DictGet(dimensions.m, "height"), DictGet(dimensions.m, "h"),
                     DictGet(dimensions.m, "gao")>>),
           max_length, max_width, max_height, strict_mode)

\* the body of the loop of filter_products_by_size
SizeItem(product, max_length, max_width, max_height, strict_mode) ==
    SizeOfDimensions(OrChain(<<DictGetOrEmpty(product, "dimensions"),
                               DictGetOrEmpty(product, "size"),
                               DictGetOrEmpty(product, "specs")>>),
                     max_length, max_width, max_height, strict_mode)

filter_products_by_size(products, max_length, max_width, max_height, strict_mode) ==
    IF ~(Truthy(max_length) \/ Truthy(max_width) \/ Truthy(max_height))
    THEN Ok(products)
    ELSE LoopResult(products,
           [i \in 1..Len(products) |->
               SizeItem(products[i], max_length, max_width, max_height, strict_mode)])

\* Unknown with the two modes exchanged
Unknown_lenient_drops(strict_mode) == IF strict_mode THEN "keep" ELSE "drop"

\* "if value is None: (lenient keeps) ... try: if <test>: append
\*  except (TypeError, ValueError): (lenient keeps)"
Unknown(strict_mode) == IF strict_mode THEN "drop" ELSE "keep"

\* value is the attribute read, r the outcome of its conversion, and
\* test is "ge" for "converted >= bound" and "le" for "converted <= bound"
Compare(value, r, test, bound, strict_mode) ==
    IF value.t = "none" THEN Unknown(strict_mode)
    ELSE IF ~r.ok THEN Unknown(strict_mode)
    ELSE IF (test = "ge" /\ r.v >= bound.n) \/ (test = "le" /\ r.v <= bound.n) THEN "keep"
    ELSE "drop"

\* the body of a loop that converts with int()
CompareInt(value, test, bound, strict_mode) ==
    Compare(value, PyInt(value), test, bound, strict_mode)

\* the body of a loop that converts with float()
CompareFloat(value, test, bound, strict_mode) ==
    Compare(value, PyFloat(value), test, bound, strict_mode)

InventoryItem(product, min_inventory, strict_mode) ==
    CompareInt(OrChain(<<DictGet(product, "inventory"), DictGet(product, "stock"),
                         DictGet(product, "quantity")>>),
               "ge", min_inventory, strict_mode)

filter_products_by_inventory(products, min_inventory, strict_mode) ==
    IF ~Truthy(min_inventory) THEN Ok(products)
    ELSE LoopResult(products,
           [i \in 1..Len(products) |->
               InventoryItem(products[i], min_inventory, strict_mode)])

DeliveryItem(product, max_delivery_days, strict_mode) ==
    CompareInt(OrChain(<<DictGet(product, "delivery_days"),
                         DictGet(product, "shipping_days"),
                         DictGet(product, "delivery_time")>>),
               "le", max_delivery_days, strict_mode)

filter_products_by_delivery(products, max_delivery_days, strict_mode) ==
    IF ~Truthy(max_delivery_days) THEN Ok(products)
    ELSE LoopResult(products,
           [i \in 1..Len(products) |->
               DeliveryItem(products[i], max_delivery_days, strict_mode)])

ShippingFeeItem(product, max_shipping_fee, strict_mode) ==
    CompareFloat(OrChain(<<DictGet(product, "shipping_fee"),
                           DictGet(product, "shipping_cost"),
                           DictGet(product, "delivery_fee")>>),
                 "le", max_shipping_fee, strict_mode)

\* "if not max_shipping_fee and max_shipping_fee != 0: return products"
filter_products_by_shipping_fee(products, max_shipping_fee, strict_mode) ==
    IF ~Truthy(max_shipping_fee) /\ max_shipping_fee # Num(0) THEN Ok(products)
    ELSE LoopResult(products,
           [i \in 1..Len(products) |->
               ShippingFeeItem(products[i], max_shipping_fee, strict_mode)])

WeightItem(product, max_weight, strict_mode) ==
    CompareFloat(OrChain(<<DictGet(product, "weight"), DictGet(product, "product_weight"),
                           DictGet(product, "net_weight"),
                           DictGet(product, "gross_weight")>>),
                 "le", max_weight, strict_mode)

\* filter_products_by_weight with the guard "if not max_weight", as the
\* delivery and inventory filters have it
filter_products_by_weight_truthiness_guard(products, max_weight, strict_mode) ==
    IF ~Truthy(max_weight) THEN Ok(products)
    ELSE LoopResult(products,
           [i \in 1..Len(products) |->
               WeightItem(products[i], max_weight, strict_mode)])

filter_products_by_weight(products, max_weight, strict_mode) ==
    IF ~Truthy(max_weight) /\ max_weight # Num(0) THEN Ok(products)
    ELSE LoopResult(products,
           [i \in 1..Len(products) |->
               WeightItem(products[i], max_weight, strict_mode)])

\* the body of the loop once jpy_price is computed
InJpyRange(jpy_price, jpy_price_min, jpy_price_max, strict_mode) ==
    IF jpy_price.t = "none" THEN Unknown(strict_mode)
    ELSE IF Truthy(jpy_price_min) /\ jpy_price.n < jpy_price_min.n THEN "drop"
    ELSE IF Truthy(jpy_price_max) /\ jpy_price.n > jpy_price_max.n THEN "drop"
    ELSE "keep"

JpyPriceItem(product, jpy_price_min, jpy_price_max, exchange_rate, strict_mode) ==
    InJpyRange(get_product_price_in_jpy(product, exchange_rate), jpy_price_min,
               jpy_price_max, strict_mode)

\* filter_products_by_jpy_price without its "return products" when neither
\* bound is given
filter_products_by_jpy_price_without_early_return(products, jpy_price_min, jpy_price_max, exchange_rate, strict_mode) ==
    LoopResult(products,
           [i \in 1..Len(products) |->
               JpyPriceItem(products[i], jpy_price_min, jpy_price_max, exchange_rate, strict_mode)])

filter_products_by_jpy_price(products, jpy_price_min, jpy_price_max, exchange_rate, strict_mode) ==
    IF ~(Truthy(jpy_price_min) \/ Truthy(jpy_price_max)) THEN Ok(products)
    ELSE LoopResult(products,
           [i \in 1..Len(products) |->
               JpyPriceItem(products[i], jpy_price_min, jpy_price_max, exchange_rate, strict_mode)])

\* an allow-list argument: None, or a list of strings
NoList == [some |-> FALSE, items |-> <<>>]
List(items) == [some |-> TRUE, items |-> items]
\* bool(allow_list)
ListTruthy(a) == a.some /\ a.items # <<>>
\* x in allow_list
InList(x, a) == \E i \in 1..Len(a.items) : a.items[i] = x

\* CategoryCheck without "or value not in allow_list"
CategoryCheck_presence_only(allow_list, value) ==
    IF ListTruthy(allow_list) /\ ~Truthy(value) THEN "drop" ELSE "pass"

\* "if allow_list: value = ...; if not value or value not in allow_list: continue"
CategoryCheck(allow_list, value) ==
    IF ListTruthy(allow_list) /\ (~Truthy(value) \/ ~InList(value, allow_list))
    THEN "drop" ELSE "pass"

\* category_info.get(...) or ... for the three levels ("yiji", "erji" and
\* "sanji" stand for the Chinese key names of the source)
MainCat(info) ==
    OrChain(<<DictGet(info, "category"), DictGet(info, "mainCategory"),
              DictGet(info, "yiji")>>)
SubCat(info) ==
    OrChain(<<DictGet(info, "subcategory"), DictGet(info, "subCategory"),
              DictGet(info, "erji")>>)
SubSubCat(info) ==
    OrChain(<<DictGet(info, "subSubcategory"), DictGet(info, "sub_subcategory"),
              DictGet(info, "sanji")>>)

\* product.get("category") or product.get("categoryInfo") or {}
CategoryInfo(product) ==
    OrChain(<<DictGet(product, "category"), DictGet(product, "categoryInfo"),
              Map(EmptyDict)>>)

\* CategoryOfInfo with "if not category_info: continue" in place of the
\* append
CategoryOfInfo_drops_missing(category_info, categories, subcategories, sub_subcategories) ==
    IF ~Truthy(category_info) THEN "drop"
    ELSE IF category_info.t # "map" THEN "AttributeError"
    ELSE FirstFailing(CategoryCheck(categories, MainCat(category_info.m)),
                      CategoryCheck(subcategories, SubCat(category_info.m)),
                      CategoryCheck(sub_subcategories, SubSubCat(category_info.m)))

\* the body of the loop once category_info is read
CategoryOfInfo(category_info, categories, subcategories, sub_subcategories) ==
    IF ~Truthy(category_info) THEN "keep"
    ELSE IF category_info.t # "map" THEN "AttributeError"
    ELSE FirstFailing(CategoryCheck(categories, MainCat(category_info.m)),
                      CategoryCheck(subcategories, SubCat(category_info.m)),
                      CategoryCheck(sub_subcategories, SubSubCat(category_info.m)))

CategoryItem(product, categories, subcategories, sub_subcategories) ==
    CategoryOfInfo(CategoryInfo(product), categories, subcategories, sub_subcategories)

filter_products_by_categories(products, categories, subcategories, sub_subcategories) ==
    IF ~(ListTruthy(categories) \/ ListTruthy(subcategories) \/ ListTruthy(sub_subcategories))
    THEN Ok(products)
    ELSE LoopResult(products,
           [i \in 1..Len(products) |->
               CategoryItem(products[i], categories, subcategories, sub_subcategories)])

\* the filter configuration: the keyword arguments of apply_product_filters
\* and search_products
NoFilters ==
    [categories |-> NoList, subcategories |-> NoList, sub_subcategories |-> NoList,
     max_length |-> None, max_width |-> None, max_height |-> None, max_weight |-> None,
     jpy_price_min |-> None, jpy_price_max |-> None, exchange_rate |-> 20 * Scale,
     strict_mode |-> FALSE, min_inventory |-> None, max_delivery_days |-> None,
     max_shipping_fee |-> None]

\* the stages of apply_product_filters after the first: each takes the
\* outcome r of the stage before it, and an exception of an earlier stage
\* leaves the function
ThenJpyPrice(r, c) ==
    IF ~r.ok THEN r
    ELSE filter_products_by_jpy_price(r.v, c.jpy_price_min, c.jpy_price_max,
                                      c.exchange_rate, c.strict_mode)

ThenSize(r, c) ==
    IF ~r.ok THEN r
    ELSE filter_products_by_size(r.v, c.max_length, c.max_width, c.max_height,
                                 c.strict_mode)

ThenInventory(r, c) ==
    IF ~r.ok \/ c.min_inventory.t = "none" THEN r
    ELSE filter_products_by_inventory(r.v, c.min_inventory, c.strict_mode)

ThenDelivery(r, c) ==
    IF ~r.ok \/ c.max_delivery_days.t = "none" THEN r
    ELSE filter_products_by_delivery(r.v, c.max_delivery_days, c.strict_mode)

ThenShippingFee(r, c) ==
    IF ~r.ok \/ c.max_shipping_fee.t = "none" THEN r
    ELSE filter_products_by_shipping_fee(r.v, c.max_shipping_fee, c.strict_mode)

ThenWeight(r, c) ==
    IF ~r.ok \/ c.max_weight.t = "none" THEN r
    ELSE filter_products_by_weight(r.v, c.max_weight, c.strict_mode)

apply_product_filters(products, c) ==
    ThenWeight(ThenShippingFee(ThenDelivery(ThenInventory(ThenSize(ThenJpyPrice(
        filter_products_by_categories(products, c.categories, c.subcategories,
                                      c.sub_subcategories), c), c), c), c), c), c)

\* Stages with the weight filter in fourth place, where main.py has it
Stages_weight_fourth(c) ==
    <<"categories", "jpy_price", "size">>
        \o (IF c.max_weight.t # "none" THEN <<"weight">> ELSE <<>>)
        \o (IF c.min_inventory.t # "none" THEN <<"inventory">> ELSE <<>>)
        \o (IF c.max_delivery_days.t # "none" THEN <<"delivery">> ELSE <<>>)
        \o (IF c.max_shipping_fee.t # "none" THEN <<"shipping_fee">> ELSE <<>>)

\* the filters apply_product_filters calls, in the order of its statements:
\* the last four stand under "if <bound> is not None"
Stages(c) ==
    <<"categories", "jpy_price", "size">>
        \o (IF c.min_inventory.t # "none" THEN <<"inventory">> ELSE <<>>)
        \o (IF c.max_delivery_days.t # "none" THEN <<"delivery">> ELSE <<>>)
        \o (IF c.max_shipping_fee.t # "none" THEN <<"shipping_fee">> ELSE <<>>)
        \o (IF c.max_weight.t # "none" THEN <<"weight">> ELSE <<>>)

\* the call one stage makes
Stage(name, products, c) ==
    CASE name = "categories" ->
           filter_products_by_categories(products, c.categories, c.subcategories,
                                         c.sub_subcategories)
      [] name = "jpy_price" ->
           filter_products_by_jpy_price(products, c.jpy_price_min, c.jpy_price_max,
                                        c.exchange_rate, c.strict_mode)
      [] name = "size" ->
           filter_products_by_size(products, c.max_length, c.max_width, c.max_height,
                                   c.strict_mode)
      [] name = "inventory" ->
           filter_products_by_inventory(products, c.min_inventory, c.strict_mode)
      [] name = "delivery" ->
           filter_products_by_delivery(products, c.max_delivery_days, c.strict_mode)
      [] name = "shipping_fee" ->
           filter_products_by_shipping_fee(products, c.max_shipping_fee, c.strict_mode)
      [] name = "weight" ->
           filter_products_by_weight(products, c.max_weight, c.strict_mode)

\* one entry of the log of a run: the filter called, the list it was given
\* and the list it returned (exc names the exception it raised instead)
StageEntry(name, products, r) ==
    [stage |-> name, input |-> products, exc |-> r.exc,
     output |-> IF r.ok THEN r.v ELSE <<>>]

\* the calls "filtered = filter_...(filtered, ...)" make one after the
\* other; an exception ends the run
RECURSIVE StageLog(_, _, _)
StageLog(names, filtered, c) ==
    IF names = <<>> THEN <<>>
    ELSE LET r == Stage(Head(names), filtered, c)
         IN  <<StageEntry(Head(names), filtered, r)>>
             \o (IF r.ok THEN StageLog(Tail(names), r.v, c) ELSE <<>>)

\* the code points of the characters the category names and the titles are
\* written with
CodePoint ==
    "A" :> 65 @@ "B" :> 66 @@ "C" :> 67 @@ "a" :> 97 @@ "b" :> 98 @@ "e" :> 101
      @@ "g" :> 103 @@ "n" :> 110 @@ "o" :> 111

\* a < b for two strings
RECURSIVE StrLess(_, _)
StrLess(a, b) ==
    IF b = <<>> THEN FALSE
    ELSE IF a = <<>> THEN TRUE
    ELSE IF Head(a) # Head(b) THEN CodePoint[Head(a)] < CodePoint[Head(b)]
    ELSE StrLess(Tail(a), Tail(b))

\* sorted(list(values)) for a set of strings
\* min(values)
Least(values) == CHOOSE x \in values : \A y \in values \ {x} : StrLess(x.s, y.s)

RECURSIVE Sorted(_)
SortedFrom(least, values) == <<least>> \o Sorted(values \ {least})
Sorted(values) == IF values = {} THEN <<>> ELSE SortedFrom(Least(values), values)

\* {value} if the value is truthy, else the empty set
IfTruthy(value) == IF Truthy(value) THEN {value} ELSE {}

\* Collected without the "elif isinstance(category_info, str)" branch
Collected_mappings_only(acc, category_info) ==
    IF category_info.t = "map"
    THEN [categories |-> acc.categories \cup IfTruthy(MainCat(category_info.m)),
          subcategories |-> acc.subcategories \cup IfTruthy(SubCat(category_info.m)),
          sub_subcategories |-> acc.sub_subcategories
                                   \cup IfTruthy(SubSubCat(category_info.m))]
    ELSE acc

\* the three sets after the body of the loop for one category_info
Collected(acc, category_info) ==
    IF category_info.t = "map"
    THEN [categories |-> acc.categories \cup IfTruthy(MainCat(category_info.m)),
          subcategories |-> acc.subcategories \cup IfTruthy(SubCat(category_info.m)),
          sub_subcategories |-> acc.sub_subcategories
                                   \cup IfTruthy(SubSubCat(category_info.m))]
    ELSE IF category_info.t = "str"
    THEN [acc EXCEPT !.categories = @ \cup {category_info}]
    ELSE acc

\* the three sets after the loop of collect_categories_from_products over
\* the first n products
RECURSIVE CollectLoop(_, _)
CollectLoop(products, n) ==
    IF n = 0 THEN [categories |-> {}, subcategories |-> {}, sub_subcategories |-> {}]
    ELSE Collected(CollectLoop(products, n - 1), CategoryInfo(products[n]))

\* the dict returned, given the three sets
SortedFacets(sets) ==
    [categories |-> Sorted(sets.categories),
     subcategories |-> Sorted(sets.subcategories),
     sub_subcategories |-> Sorted(sets.sub_subcategories)]

collect_categories_from_products(products) ==
    SortedFacets(CollectLoop(products, Len(products)))

(***************************************************************************)
(* src/main.py: the older copy of the weight filter, which reads units.    *)
(***************************************************************************)
LowerCase ==
    "K" :> "k" @@ "G" :> "g" @@ "L" :> "l" @@ "B" :> "b" @@ "N" :> "n" @@ "A" :> "a"
      @@ "C" :> "c" @@ "D" :> "d" @@ "E" :> "e" @@ "S" :> "s"
\* s.lower()
Lower(s) == [i \in 1..Len(s) |-> IF s[i] \in DOMAIN LowerCase THEN LowerCase[s[i]] ELSE s[i]]

\* sub in s
Contains(s, sub) ==
    \E i \in 0..(Len(s) - Len(sub)) : SubSeq(s, i + 1, i + Len(sub)) = sub

\* grams per pound: the 453.592 of the source, in Scale units
GramsPerPound == 453592

\* weight_val for a string with digits: r is the outcome of float(weight_clean)
\* and low is weight.lower()
InGrams(r, low) ==
    IF ~r.ok THEN r
    ELSE IF Contains(low, <<"k", "g">>) \/ (r.v > 10 * Scale /\ ~Contains(low, <<"g">>))
    THEN Ok(Num(Mul(r.v, 1000 * Scale)))
    ELSE IF Contains(low, <<"l", "b">>) \/ Contains(low, <<"p", "o", "u", "n", "d">>)
    THEN Ok(Num(Mul(r.v, GramsPerPound)))
    ELSE Ok(Num(r.v))

\* float(weight) as a value
AsNum(r) == IF r.ok THEN Ok(Num(r.v)) ELSE r

\* the "try" block of main.py's filter_products_by_weight up to weight_val:
\* Ok(Num(grams)), Ok(None) when the string holds no digit, or the exception
main_weight_val(weight) ==
    IF weight.t = "str"
    THEN (IF KeepDigitsDotsCommas(weight.s) = <<>> THEN Ok(None)
          ELSE InGrams(ParseFloat(CommasToDots(KeepDigitsDotsCommas(weight.s))),
                       Lower(weight.s)))
    ELSE AsNum(PyFloat(weight))

\* the body of the loop once weight is read and weight_val computed (r)
main_WeightDecision(weight, r, max_weight, strict_mode) ==
    IF weight.t = "none" THEN Unknown(strict_mode)
    ELSE IF ~r.ok THEN Unknown(strict_mode)
    ELSE IF r.v.t = "none" \/ r.v.n <= max_weight.n THEN "keep" ELSE "drop"

main_WeightOf(weight, max_weight, strict_mode) ==
    main_WeightDecision(weight, main_weight_val(weight), max_weight, strict_mode)

main_WeightItem(product, max_weight, strict_mode) ==
    main_WeightOf(OrChain(<<DictGet(product, "weight"), DictGet(product, "product_weight"),
                            DictGet(product, "net_weight"),
                            DictGet(product, "gross_weight")>>),
                  max_weight, strict_mode)

main_filter_products_by_weight(products, max_weight, strict_mode) ==
    IF max_weight.t = "none" THEN Ok(products)
    ELSE LoopResult(products,
           [i \in 1..Len(products) |->
               main_WeightItem(products[i], max_weight, strict_mode)])

(***************************************************************************)
(* src/rakumart/http.py and src/rakumart/api_search.py                     *)
(***************************************************************************)
PyTrue == Num(1)
PyFalse == Num(0)

\* what the transport does with one POST: kind is "timeout", "network_error",
\* "not_json" or "json", and body is the decoded JSON value of a "json" one
Response(kind, body) == [kind |-> kind, body |-> body]
NoResponse == Response("none", None)

safe_post_json(response) == IF response.kind = "json" THEN response.body ELSE None

\* PostAttempts with a second request after a timeout or a network error
PostAttempts_with_retry(response) ==
    IF response.kind \in {"timeout", "network_error"} THEN 2 ELSE 1

\* the requests one call of safe_post_json sends: "requests.post(...)" stands
\* once, in no loop, and each handler ends with "return None"
PostAttempts(response) == 1

\* v[k]: Ok(value), or the KeyError / TypeError it raises
Subscript(v, k) ==
    IF v.t = "map" THEN (IF k \in DOMAIN v.m THEN Ok(v.m[k]) ELSE Exc("KeyError"))
    ELSE Exc("TypeError")

\* r[k] for the outcome r of an earlier subscript
SubscriptNext(r, k) == IF r.ok THEN Subscript(r.v, k) ELSE r

\* data["data"]["result"]["result"]
ResultOf(data) == SubscriptNext(SubscriptNext(Subscript(data, "data"), "result"), "result")

\* the list a filter pipeline returned, as the function's return value
AsList(f) == IF f.ok THEN Ok(Lst(f.v)) ELSE f

\* the end of search_products, given the outcome of the "try" block
Filtered(payload, c, apply_filters_fn) ==
    IF ~payload.ok THEN Ok(Lst(<<>>))
    ELSE IF apply_filters_fn /\ payload.v.t = "list"
    THEN AsList(apply_product_filters(payload.v.m, c))
    ELSE Ok(payload.v)

\* search_products from the value safe_post_json returned, without its
\* "if data is None: return []"
Unwrapped_without_none_check(data, c, apply_filters_fn) ==
    IF data.t # "map" THEN Exc("AttributeError")
    ELSE IF ~Truthy(IF "success" \in DOMAIN data.m THEN data.m["success"] ELSE PyFalse)
    THEN Ok(Lst(<<>>))
    ELSE Filtered(ResultOf(data), c, apply_filters_fn)

\* search_products from the value safe_post_json returned
Unwrapped(data, c, apply_filters_fn) ==
    IF data.t = "none" THEN Ok(Lst(<<>>))
    ELSE IF data.t # "map" THEN Exc("AttributeError")
    ELSE IF ~Truthy(IF "success" \in DOMAIN data.m THEN data.m["success"] ELSE PyFalse)
    THEN Ok(Lst(<<>>))
    ELSE Filtered(ResultOf(data), c, apply_filters_fn)

\* search_products after the payload is built; apply_filters_fn is TRUE when
\* the caller passed apply_product_filters as the callback and FALSE when it
\* passed none.  Returns Ok(value returned) or Exc(name).
search_products(response, c, apply_filters_fn) ==
    Unwrapped(safe_post_json(response), c, apply_filters_fn)

(***************************************************************************)
(* src/rakumart/cli.py and src/rakumart/gui.py: the list the search        *)
(* command and the GUI's search button receive and show.                   *)
(***************************************************************************)
\* run(), command "search": search_products is called with the parsed filter
\* flags and without apply_filters_fn
cli_search(response, c) == search_products(response, c, FALSE)

\* do_search(): search_products is called with the form's filter values and
\* without apply_filters_fn
gui_search(response, c) == search_products(response, c, FALSE)

(***************************************************************************)
(* The other endpoint functions: src/rakumart/api_search.py,               *)
(* src/rakumart/orders.py and src/rakumart/meta.py.  Each is given here    *)
(* from the value safe_post_json returned.                                 *)
(***************************************************************************)
\* "try: return data["data"] except (KeyError, TypeError): return None"
DataOf(r) == IF r.ok THEN r ELSE Ok(None)

\* get_product_detail and get_image_id after safe_post_json
DetailUnwrapped(data) ==
    IF data.t = "none" THEN Ok(None)
    ELSE IF data.t # "map" THEN Exc("AttributeError")
    ELSE IF ~Truthy(IF "success" \in DOMAIN data.m THEN data.m["success"] ELSE PyFalse)
    THEN Ok(None)
    ELSE DataOf(Subscript(data, "data"))

get_product_detail(response) == DetailUnwrapped(safe_post_json(response))

get_image_id(response) == DetailUnwrapped(safe_post_json(response))

\* create_order after safe_post_json: it ends with "return data.get("data")"
OrderUnwrapped(data) ==
    IF data.t = "none" THEN Ok(None)
    ELSE IF data.t # "map" THEN Exc("AttributeError")
    ELSE IF ~Truthy(IF "success" \in DOMAIN data.m THEN data.m["success"] ELSE PyFalse)
    THEN Ok(None)
    ELSE Ok(DictGet(data.m, "data"))

create_order(response) == OrderUnwrapped(safe_post_json(response))

\* the functions that end with "return safe_post_json(...)"
get_logistics(response) == Ok(safe_post_json(response))
get_tags(response) == Ok(safe_post_json(response))
update_order_status(response) == Ok(safe_post_json(response))
cancel_order(response) == Ok(safe_post_json(response))
get_order_list(response) == Ok(safe_post_json(response))
get_order_detail(response) == Ok(safe_post_json(response))
get_stock_list(response) == Ok(safe_post_json(response))
update_porder_status(response) == Ok(safe_post_json(response))
cancel_porder(response) == Ok(safe_post_json(response))
get_porder_list(response) == Ok(safe_post_json(response))
get_porder_detail(response) == Ok(safe_post_json(response))
get_logistics_track(response) == Ok(safe_post_json(response))

\* create_porder: "data = safe_post_json(...)" ... "return data"
create_porder(response) == Ok(safe_post_json(response))

\* the attachments of create_porder.  An entry of porder_file has a name or
\* not, and its "file" is absent, empty, the path of a file that can be
\* read, or a path that open() refuses.  The entry of an attachment in the
\* files dict holds a file object ("open", "closed") or none ("none").
FileEntry(pf) == IF pf.file = "readable" THEN "open" ELSE "none"

\* "for i, pf in enumerate(porder_file)": open() under "except Exception"
OpenedFiles(porder_file) == [i \in 1..Len(porder_file) |-> FileEntry(porder_file[i])]

\* Released, run only when safe_post_json returned
Released_on_return(handles, response) ==
    IF response.kind = "raised" THEN handles
    ELSE [i \in 1..Len(handles) |-> IF handles[i] = "open" THEN "closed" ELSE handles[i]]

\* the "finally" block: close() on every entry that has one, however the
\* request ended
Released(handles, response) ==
    [i \in 1..Len(handles) |-> IF handles[i] = "open" THEN "closed" ELSE handles[i]]

\* what create_porder leaves of the attachments
porder_files(porder_file, response) == Released(OpenedFiles(porder_file), response)

\* create_porder with attachments: an exception that safe_post_json does not
\* catch passes through the "finally" block to the caller
create_porder_with_files(response) ==
    IF response.kind = "raised" THEN Exc("Exception") ELSE create_porder(response)

\* the endpoint functions other than search, by name
Endpoint(name, response) ==
    CASE name = "get_product_detail" -> get_product_detail(response)
      [] name = "get_image_id" -> get_image_id(response)
      [] name = "create_order" -> create_order(response)
      [] name = "get_logistics" -> get_logistics(response)
      [] name = "get_tags" -> get_tags(response)
      [] name = "update_order_status" -> update_order_status(response)
      [] name = "cancel_order" -> cancel_order(response)
      [] name = "get_order_list" -> get_order_list(response)
      [] name = "get_order_detail" -> get_order_detail(response)
      [] name = "get_stock_list" -> get_stock_list(response)
      [] name = "create_porder" -> create_porder(response)
      [] name = "update_porder_status" -> update_porder_status(response)
      [] name = "cancel_porder" -> cancel_porder(response)
      [] name = "get_porder_list" -> get_porder_list(response)
      [] name = "get_porder_detail" -> get_porder_detail(response)
      [] name = "get_logistics_track" -> get_logistics_track(response)

\* the number of times search_products invokes apply_filters_fn, given the
\* value safe_post_json returned: once, when line 104 is reached with a
\* callback
FilterCalls(data, apply_filters_fn) ==
    IF apply_filters_fn /\ data.t = "map"
       /\ Truthy(IF "success" \in DOMAIN data.m THEN data.m["success"] ELSE PyFalse)
       /\ ResultOf(data).ok
    THEN 1 ELSE 0

(***************************************************************************)
(* src/rakumart/enrich.py                                                  *)
(***************************************************************************)
DigitChar == <<"0", "1", "2", "3", "4", "5", "6", "7", "8", "9">>

\* the decimal digits of a natural number
RECURSIVE DigitsOf(_)
DigitsOf(n) ==
    IF n < 10 THEN <<DigitChar[n + 1]>>
    ELSE DigitsOf(n \div 10) \o <<DigitChar[(n % 10) + 1]>>

\* str(v) for the identifiers an item carries: a string, None or a whole
\* number
PyStr(v) ==
    CASE v.t = "str" -> v.s
      [] v.t = "none" -> <<"N", "o", "n", "e">>
      [] v.t = "num" -> DigitsOf(v.n \div Scale)

\* num_to_enrich without the limit: every position is considered
NumToEnrich_ignoring_limit(n, limit) == n

\* num_to_enrich for a list of n items; limit is None or a whole number
NumToEnrich(n, limit) ==
    IF limit.t = "none" \/ limit.n = 0 THEN n
    ELSE IF limit.n < 0 THEN 0
    ELSE IF limit.n \div Scale < n THEN limit.n \div Scale
    ELSE n

\* the three assignments to the item
Merge(item, detail) ==
    [k \in DOMAIN item \cup {"detailImages", "detailDescription", "detailNormalized"} |->
        IF k = "detailImages"
        THEN (IF "images" \in DOMAIN detail.m THEN detail.m["images"] ELSE Lst(<<>>))
        ELSE IF k = "detailDescription"
        THEN (IF "description" \in DOMAIN detail.m THEN detail.m["description"]
              ELSE Str(<<>>))
        ELSE IF k = "detailNormalized" THEN detail
        ELSE item[k]]

\* the state of the loop: the list, the calls of the callback so far (the
\* position of the item and the identifier passed), and the exception that
\* left the loop ("" while none did)
EnrichState(items, cs, exc) == [items |-> items, calls |-> cs, exc |-> exc]

\* the loop body from "if detail:", r being the outcome of the callback
AfterDetail(acc, idx, r) ==
    IF ~r.ok THEN [acc EXCEPT !.exc = r.exc]
    ELSE IF ~Truthy(r.v) THEN acc
    ELSE IF r.v.t # "map" THEN [acc EXCEPT !.exc = "AttributeError"]
    ELSE [acc EXCEPT !.items[idx] = Merge(@, r.v)]

\* what a callback does with one identifier: it returns a value or raises
Returns(v) == [raises |-> "", value |-> v]
Raises(e) == [raises |-> e, value |-> None]
\* the outcome of the call
Outcome(b) == IF b.raises = "" THEN Ok(b.value) ELSE Exc(b.raises)

\* the loop body from "if not goods_id:"
Fetch(acc, idx, goods_id, get_detail_fn) ==
    IF goods_id = <<>> THEN acc
    ELSE AfterDetail([acc EXCEPT !.calls = Append(@, [pos |-> idx, goods_id |-> goods_id])],
                     idx, Outcome(get_detail_fn[goods_id]))

\* item.get("goodsId", "")
GoodsIdOf(item) == IF "goodsId" \in DOMAIN item THEN item["goodsId"] ELSE Str(<<>>)

\* the loop body for position idx; nothing runs after an exception
EnrichBody(acc, idx, get_detail_fn) ==
    IF acc.exc # "" THEN acc
    ELSE Fetch(acc, idx, PyStr(GoodsIdOf(acc.items[idx])), get_detail_fn)

\* the loop over the first n positions
RECURSIVE EnrichLoop(_, _, _)
EnrichLoop(products, n, get_detail_fn) ==
    IF n = 0 THEN EnrichState(products, <<>>, "")
    ELSE EnrichBody(EnrichLoop(products, n - 1, get_detail_fn), n, get_detail_fn)

\* the list as the call leaves it, the callback's calls and the exception
\* that left the function, if one did
enrich_products_with_detail(products, get_detail_fn, limit) ==
    IF products = <<>> THEN EnrichState(products, <<>>, "")
    ELSE EnrichLoop(products, NumToEnrich(Len(products), limit), get_detail_fn)

(***************************************************************************)
(* src/rakumart/cli.py: run()                                              *)
(***************************************************************************)
\* the commands that have a sub-parser, other than "gui" and "console"
Commands ==
    {"search", "detail", "image", "logistics", "tags", "order", "update-status", "cancel",
     "orders", "order-detail", "stock", "porder", "porder-update-status", "porder-cancel",
     "porders", "porder-detail", "ltrack"}

\* the function a branch of run() calls for the command, "" when the branch
\* calls none
Invoked(command) ==
    CASE command = "search" -> "search_products"
      [] command = "detail" -> "get_product_detail"
      [] command = "image" -> "get_image_id"
      [] command = "logistics" -> "get_logistics"
      [] command = "tags" -> "get_tags"
      [] OTHER -> ""

\* what a run leaves behind: the exit status (None when run() raised), the
\* function it called, that function's outcome, the enrichment it made and
\* the exception that left run() ("" when it returned)
RunState(status, r, e, exc) == [status |-> status, result |-> r, enrich |-> e, exc |-> exc]

\* "limit = max(0, int(detail_limit))"
DetailLimit(detail_limit) == IF detail_limit < 0 THEN Whole(0) ELSE Whole(detail_limit)

\* "if with_detail and products: enrich_products_with_detail(...)", products
\* being the list search_products returned
SearchEnriched(products, with_detail, detail_limit, get_detail_fn) ==
    IF with_detail /\ products # <<>>
    THEN enrich_products_with_detail(products, get_detail_fn, DetailLimit(detail_limit))
    ELSE EnrichState(products, <<>>, "")

\* the branch "search" after enrichment: it ends with "return 0"
SearchReturn(r, e) ==
    IF e.exc # "" THEN RunState(None, r, e, e.exc) ELSE RunState(Whole(0), r, e, "")

\* the branch "search" from the outcome r of search_products
SearchBranch(r, with_detail, detail_limit, get_detail_fn) ==
    IF ~r.ok THEN RunState(None, r, EnrichState(<<>>, <<>>, ""), r.exc)
    ELSE SearchReturn(r, SearchEnriched(r.v.m, with_detail, detail_limit, get_detail_fn))

\* the branches "detail" and "image": "if detail is None: return 1" ...
\* "return 0"
DetailBranch(r) ==
    IF ~r.ok THEN RunState(None, r, EnrichState(<<>>, <<>>, ""), r.exc)
    ELSE RunState(IF r.v.t = "none" THEN Whole(1) ELSE Whole(0), r,
                  EnrichState(<<>>, <<>>, ""), "")

\* the branches "logistics" and "tags": "if not data: return 1" ... "return 0"
MetaBranch(r) ==
    RunState(IF ~Truthy(r.v) THEN Whole(1) ELSE Whole(0), r, EnrichState(<<>>, <<>>, ""), "")

\* run([command, ...]): argparse leaves with SystemExit for a command that
\* has no sub-parser, and the last branch returns 2 without calling anything
run(command, response, c, with_detail, detail_limit, get_detail_fn) ==
    CASE command \notin Commands ->
            RunState(None, Ok(None), EnrichState(<<>>, <<>>, ""), "SystemExit")
      [] command = "search" ->
            SearchBranch(cli_search(response, c), with_detail, detail_limit, get_detail_fn)
      [] command = "detail" -> DetailBranch(get_product_detail(response))
      [] command = "image" -> DetailBranch(get_image_id(response))
      [] command = "logistics" -> MetaBranch(get_logistics(response))
      [] command = "tags" -> MetaBranch(get_tags(response))
      [] OTHER -> RunState(Whole(2), Ok(None), EnrichState(<<>>, <<>>, ""), "")

\* the callback run() hands to enrich_products_with_detail: get_product_detail
\* on the answer the transport gives for each identifier
Answer(r) == IF r.ok THEN Returns(r.v) ELSE Raises(r.exc)
DetailCallback(responses) ==
    [id \in DOMAIN responses |-> Answer(get_product_detail(responses[id]))]

\* the requests the calls of that callback sent
RECURSIVE DetailPosts(_, _)
DetailPosts(calls, responses) ==
    IF calls = <<>> THEN 0
    ELSE PostAttempts(responses[Head(calls).goods_id]) + DetailPosts(Tail(calls), responses)

\* the requests of the function a command calls; most commands call none
CommandPosts(command, response) ==
    IF Invoked(command) = "" THEN 0 ELSE PostAttempts(response)

(***************************************************************************)
(* src/rakumart/console.py: the interactive console over a result list.    *)
(***************************************************************************)
\* a SearchResultConsole: its attributes, what the last command displayed
\* and the exception that left the command loop ("" while none did)
ConsoleState(ps, fs, page, size, shown, exc) ==
    [products |-> ps, filtered_products |-> fs, current_page |-> page,
     page_size |-> size, shown |-> shown, exc |-> exc]

\* __init__: filtered_products is a copy of the list
NewConsole(ps) == ConsoleState(ps, ps, 0, 10, <<>>, "")

\* the keys of the items, as they are typed on the command line
FieldKeys ==
    <<"t", "i", "t", "l", "e", "C">> :> "titleC" @@ <<"t", "i", "t", "l", "e", "T">> :> "titleT" @@ <<"g", "o", "o", "d", "s", "P", "r", "i", "c", "e">> :> "goodsPrice"
      @@ <<"g", "o", "o", "d", "s", "I", "d">> :> "goodsId"

\* the key a typed field name stands for; no item holds the key ""
FieldKey(field) == IF field \in DOMAIN FieldKeys THEN FieldKeys[field] ELSE ""

\* the place of the first blank of s, 0 when it holds none
FirstBlank(s) ==
    IF \E i \in 1..Len(s) : s[i] = " "
    THEN CHOOSE i \in 1..Len(s) : s[i] = " " /\ \A j \in 1..(i - 1) : s[j] # " "
    ELSE 0

\* args.split(" ", 1)
SplitOnce(s) ==
    IF FirstBlank(s) = 0 THEN <<s>>
    ELSE <<SubSeq(s, 1, FirstBlank(s) - 1), SubSeq(s, FirstBlank(s) + 1, Len(s))>>

\* args.split(): the words between the blanks
RECURSIVE Words(_)
Words(s) ==
    IF StripLeft(s) = <<>> THEN <<>>
    ELSE IF FirstBlank(StripLeft(s)) = 0 THEN <<StripLeft(s)>>
    ELSE <<SubSeq(StripLeft(s), 1, FirstBlank(StripLeft(s)) - 1)>>
         \o Words(SubSeq(StripLeft(s), FirstBlank(StripLeft(s)) + 1, Len(StripLeft(s))))

\* str(p.get(key, ""))
FieldText(p, key) == IF key \in DOMAIN p THEN PyStr(p[key]) ELSE <<>>

\* str(p.get(field, "")).lower().find(value.lower()) != -1
FieldContains(p, key, value) == Contains(Lower(FieldText(p, key)), Lower(value))

\* [p for p in items if <p's field contains value>]
RECURSIVE Matching(_, _, _)
Matching(items, key, value) ==
    IF items = <<>> THEN <<>>
    ELSE (IF FieldContains(Head(items), key, value) THEN <<Head(items)>> ELSE <<>>)
         \o Matching(Tail(items), key, value)

\* the command went through without a display
Quiet(c) == [c EXCEPT !.shown = <<>>]

\* do_filter: without two parts it prints the usage; else it starts again
\* from a copy of products
do_filter(c, args) ==
    IF args = <<>> \/ Len(SplitOnce(args)) < 2 THEN Quiet(c)
    ELSE ConsoleState(c.products,
                      Matching(c.products, FieldKey(SplitOnce(args)[1]), SplitOnce(args)[2]),
                      0, c.page_size, <<>>, "")

do_clear(c) == ConsoleState(c.products, c.products, 0, c.page_size, <<>>, "")

\* _get_sort_value: a number, the lower-cased string, or "none"
SortKey(isnum, n, s) == [isnum |-> isnum, n |-> n, s |-> s]
SortValue(value) ==
    CASE value.t = "num" -> SortKey(TRUE, value.n, <<>>)
      [] value.t = "str" /\ ParseFloat(value.s).ok -> SortKey(TRUE, ParseFloat(value.s).v, <<>>)
      [] value.t = "str" -> SortKey(FALSE, 0, Lower(value.s))
      [] OTHER -> SortKey(FALSE, 0, Lower(PyStr(value)))

\* the sort values of the items for the typed field
SortValues(items, key) == [i \in 1..Len(items) |-> SortValue(DictGet(items[i], key))]

\* a < b for two sort values of the same kind
KeyLess(a, b) == IF a.isnum THEN a.n < b.n ELSE StrLess(a.s, b.s)

\* item k comes before item j in the sorted list: by its value, and for
\* equal values by its place, ascending or descending alike
Before(keys, k, j, reverse) ==
    \/ (IF reverse THEN KeyLess(keys[j], keys[k]) ELSE KeyLess(keys[k], keys[j]))
    \/ (~KeyLess(keys[j], keys[k]) /\ ~KeyLess(keys[k], keys[j]) /\ k < j)

\* list.sort(key=..., reverse=...) when the values can be compared
SortedBy(items, keys, reverse) ==
    [i \in 1..Len(items) |->
        items[CHOOSE j \in 1..Len(items) :
            Cardinality({k \in 1..Len(items) : Before(keys, k, j, reverse)}) = i - 1]]

\* the orders in which a list can stand
Orderings(items) ==
    { [i \in 1..Len(items) |-> items[f[i]]] :
        f \in {g \in [1..Len(items) -> 1..Len(items)] :
                 \A a, b \in 1..Len(items) : g[a] = g[b] => a = b} }

\* a number stands next to a string: "<" raises TypeError
Incomparable(keys) == \E a, b \in 1..Len(keys) : keys[a].isnum /\ ~keys[b].isnum

\* what list.sort can leave behind: the sorted list, or, when a comparison
\* raised, the items in whatever order the sort had reached
SortOutcomes(items, keys, reverse) ==
    IF Incomparable(keys) THEN Orderings(items)
    ELSE {SortedBy(items, keys, reverse)}

\* parts[1].lower() == "desc"
Descending(parts) == Len(parts) > 1 /\ Lower(parts[2]) = <<"d", "e", "s", "c">>

\* do_sort that sorts the products list itself
do_sort_products(c, args) ==
    IF args = <<>> THEN {Quiet(c)}
    ELSE { ConsoleState(fs, fs, c.current_page, c.page_size, <<>>, "") :
             fs \in SortOutcomes(c.products,
                                 SortValues(c.products, FieldKey(Words(args)[1])),
                                 Descending(Words(args))) }

\* do_sort: the states it can leave; the exception of a failed sort is
\* caught
do_sort(c, args) ==
    IF args = <<>> THEN {Quiet(c)}
    ELSE { ConsoleState(c.products, fs, c.current_page, c.page_size, <<>>, "") :
             fs \in SortOutcomes(c.filtered_products,
                                 SortValues(c.filtered_products, FieldKey(Words(args)[1])),
                                 Descending(Words(args))) }

\* int(s) as a whole number
IntOf(s) == ParseInt(s).v \div Scale

\* "self.current_page = int(parts[0]) - 1" and "self.page_size =
\* int(parts[1])" under "except ValueError"
PageOf(c, parts) ==
    IF Len(parts) >= 1 /\ ParseInt(parts[1]).ok THEN IntOf(parts[1]) - 1 ELSE c.current_page
SizeOf(c, parts) ==
    IF Len(parts) >= 2 /\ ParseInt(parts[1]).ok /\ ParseInt(parts[2]).ok
    THEN IntOf(parts[2]) ELSE c.page_size

\* the place a slice bound stands for in a list of n items
SliceBound(i, n) == IF i < 0 THEN (IF i + n < 0 THEN 0 ELSE i + n) ELSE IF i > n THEN n ELSE i

\* items[start:end]
Slice(items, start, end) ==
    SubSeq(items, SliceBound(start, Len(items)) + 1, SliceBound(end, Len(items)))

\* product.get("titleC", "No title")[:50] raises TypeError for a title that
\* is not a string
TitleFails(items) ==
    \E i \in 1..Len(items) : "titleC" \in DOMAIN items[i] /\ items[i]["titleC"].t # "str"

\* a display of items by _display_product_summary
Display(c, page, size, items) ==
    ConsoleState(c.products, c.filtered_products, page, size, items,
                 IF TitleFails(items) THEN "TypeError" ELSE "")

do_list(c, args) ==
    Display(c, PageOf(c, Words(args)), SizeOf(c, Words(args)),
            Slice(c.filtered_products,
                  PageOf(c, Words(args)) * SizeOf(c, Words(args)),
                  PageOf(c, Words(args)) * SizeOf(c, Words(args)) + SizeOf(c, Words(args))))

\* do_show: one item of filtered_products, or a message
do_show(c, args) ==
    IF ParseInt(args).ok /\ IntOf(args) - 1 >= 0 /\ IntOf(args) - 1 < Len(c.filtered_products)
    THEN [c EXCEPT !.shown = <<c.filtered_products[IntOf(args)]>>]
    ELSE Quiet(c)

\* " ".join([str(titleC), str(titleT), str(goodsId), str(shopName)]).lower()
SearchableText(p) ==
    Lower(FieldText(p, "titleC") \o <<" ">> \o FieldText(p, "titleT") \o <<" ">>
          \o FieldText(p, "goodsId") \o <<" ">>)

RECURSIVE SearchMatches(_, _)
SearchMatches(items, query) ==
    IF items = <<>> THEN <<>>
    ELSE (IF Contains(SearchableText(Head(items)), query) THEN <<Head(items)>> ELSE <<>>)
         \o SearchMatches(Tail(items), query)

\* do_search: the first ten matches among filtered_products
do_search(c, args) ==
    IF args = <<>> THEN Quiet(c)
    ELSE Display(c, c.current_page, c.page_size,
                 Slice(SearchMatches(c.filtered_products, Lower(args)), 0, 10))

\* float(p.get("goodsPrice", 0)) raises ValueError for a price that is not
\* a number
PriceFails(items) ==
    \E i \in 1..Len(items) :
        /\ Truthy(DictGet(items[i], "goodsPrice"))
        /\ ~PyFloat(DictGet(items[i], "goodsPrice")).ok

\* do_stats: figures about filtered_products
do_stats(c) ==
    [c EXCEPT !.shown = <<>>, !.exc = IF PriceFails(c.filtered_products) THEN "ValueError" ELSE ""]

(***************************************************************************)
(* The inputs the model draws from.                                        *)
(***************************************************************************)
\* all lists of at most n elements of S
Lists(S, n) == UNION {[1..k -> S] : k \in 0..n}

CatA == Str(<<"A">>)
CatB == Str(<<"B">>)
CatC == Str(<<"C">>)
CatAB == Str(<<"A", "B">>)

CategoryProducts ==
    { EmptyDict,
      [category |-> Map(EmptyDict)],
      [category |-> Map([category |-> CatA])],
      [category |-> Map([category |-> CatB, subcategory |-> CatB, subSubcategory |-> CatC])],
      [categoryInfo |-> Map([mainCategory |-> CatAB, subCategory |-> CatB])],
      [category |-> Map([category |-> Str(<<>>), mainCategory |-> CatA])],
      [category |-> Map([subcategory |-> CatC])],
      [category |-> CatA] }

CategoryLists == {NoList, List(<<>>), List(<<CatA>>), List(<<CatA, CatAB>>)}
SubcategoryLists == {NoList, List(<<CatB>>)}
SubSubcategoryLists == {NoList, List(<<CatC>>)}

SizeProducts ==
    { EmptyDict,
      [dimensions |-> Map([length |-> Whole(5)])],
      [dimensions |-> Map([length |-> Whole(5), width |-> Whole(20), height |-> Whole(1)])],
      [size |-> Map([l |-> Whole(20), w |-> Whole(5)])],
      [dimensions |-> Map([length |-> Whole(0), height |-> Whole(5)])],
      [dimensions |-> Map([length |-> Str(<<"7", ".", "5">>)])],
      [dimensions |-> Map([length |-> Str(<<"a", "b", "c">>)])],
      [dimensions |-> Str(<<"1", "0", "x", "2", "0">>)] }

MaxLengths == {None, Whole(0), Whole(10)}
MaxWidths == {None, Whole(10)}
MaxHeights == {None, Whole(0), Whole(3)}

InventoryProducts ==
    { EmptyDict,
      [inventory |-> Whole(0)],
      [inventory |-> Whole(5)],
      [inventory |-> Whole(0), stock |-> Whole(7)],
      [quantity |-> Whole(0)],
      [inventory |-> Str(<<"1", "2">>)],
      [inventory |-> Str(<<"a", "b", "c">>)] }

MinInventories == {None, Whole(0), Whole(5), Whole(10)}

DeliveryProducts ==
    { EmptyDict,
      [delivery_days |-> Whole(0)],
      [delivery_days |-> Whole(3)],
      [shipping_days |-> Whole(10)],
      [delivery_time |-> Str(<<"7">>)],
      [delivery_time |-> Str(<<"3", "-", "5", " ", "d", "a", "y", "s">>)],
      [delivery_time |-> Str(<<"s", "o", "o", "n">>)] }

MaxDeliveryDays == {None, Whole(0), Whole(5)}

ShippingFeeProducts ==
    { EmptyDict,
      [shipping_fee |-> Whole(0)],
      [shipping_fee |-> Whole(5)],
      [shipping_cost |-> Whole(50)],
      [delivery_fee |-> Str(<<"4", ".", "5">>)],
      [shipping_fee |-> Str(<<"f", "r", "e", "e">>)] }

MaxShippingFees == {None, Whole(0), Whole(10)}

\* the weight strings of the specification's examples, and two more
Weight1_5kg == <<"1", ".", "5", "k", "g">>
Weight2lbs == <<"2", " ", "l", "b", "s">>
Weight500g == <<"5", "0", "0", "g">>
Weight15 == <<"1", "5">>
Weight20lbs == <<"2", "0", " ", "l", "b", "s">>
Weight3Kg == <<"3", "K", "G">>

WeightProducts ==
    { EmptyDict,
      [weight |-> Whole(0)],
      [weight |-> Whole(500)],
      [net_weight |-> Whole(2000)],
      [weight |-> Str(Weight1_5kg)],
      [weight |-> Str(Weight2lbs)],
      [weight |-> Str(Weight500g)],
      [weight |-> Str(Weight15)],
      [gross_weight |-> Str(Weight20lbs)],
      [weight |-> Str(Weight3Kg)] }

\* every weight string of at most MaxStrLen characters over these characters
WeightChars == {"1", "5", ".", "k", "g", "l", "b"}
WeightStrings == Lists(WeightChars, MaxStrLen)

MaxWeights == {None, Whole(0), Whole(1000), Whole(10000)}

\* the price string of the specification's example
PriceYen1234_50 == <<"Y", "1", ",", "2", "3", "4", ".", "5", "0">>

PriceProducts ==
    { EmptyDict,
      [price |-> Whole(100)],
      [price |-> Whole(1000)],
      [price |-> Whole(10)],
      [goodsPrice |-> Whole(250), price |-> Whole(10)],
      [price |-> Str(<<"1", "0", "0">>)],
      [price |-> Str(<<"a", "b", "c">>), salePrice |-> Whole(100)],
      [price |-> Str(PriceYen1234_50)] }

\* every price string of at most MaxStrLen characters over these characters
\* ("Y" stands for the yen sign)
PriceChars == {"1", "5", ".", ",", "Y"}
PriceStrings == Lists(PriceChars, MaxStrLen) \cup {PriceYen1234_50}

JpyPriceMins == {None, Whole(0), Whole(1000), Whole(2000)}
JpyPriceMaxs == {None, Whole(0), Whole(2000), Whole(5000)}
ExchangeRates == {20 * Scale, 1 * Scale}

\* products that carry several attributes at once, for the whole pipeline
PipelineProducts ==
    { EmptyDict,
      [category |-> Map([category |-> CatA]), price |-> Whole(100),
       dimensions |-> Map([length |-> Whole(5)]), weight |-> Whole(500),
       inventory |-> Whole(5), delivery_days |-> Whole(3), shipping_fee |-> Whole(5)],
      [category |-> Map([category |-> CatB]), price |-> Whole(1000),
       dimensions |-> Map([length |-> Str(<<"a", "b", "c">>)])],
      [price |-> Whole(10), inventory |-> Whole(0), shipping_fee |-> Whole(0),
       dimensions |-> Map([length |-> Whole(20)])],
      [category |-> CatA, price |-> Whole(10)],
      [price |-> Whole(100), weight |-> Str(Weight1_5kg),
       delivery_time |-> Str(<<"3", "-", "5", " ", "d", "a", "y", "s">>)] }

\* configurations in which each filter is either unconfigured or set
PipelineConfigs ==
    { [NoFilters EXCEPT !.categories = cats, !.jpy_price_min = jpy[1],
                        !.jpy_price_max = jpy[2], !.max_length = ml, !.max_weight = mw,
                        !.min_inventory = mi, !.max_delivery_days = md,
                        !.max_shipping_fee = ms, !.strict_mode = strict] :
        cats \in {NoList, List(<<CatA>>)},
        jpy \in {<<None, None>>, <<Whole(1000), Whole(5000)>>},
        ml \in {None, Whole(10)}, mw \in {None, Whole(1000)}, mi \in {None, Whole(5)},
        md \in {None, Whole(5)}, ms \in {None, Whole(10)}, strict \in BOOLEAN }

\* the end-to-end fixture of the specification: source prices 100 / 1000 / 10
PriceFixture == <<[goodsId |-> Whole(1), price |-> Whole(100)],
                  [goodsId |-> Whole(2), price |-> Whole(1000)],
                  [goodsId |-> Whole(3), price |-> Whole(10)]>>

SearchProductLists == Lists(PriceProducts, 1) \cup {PriceFixture}

SuccessEnvelope(list) ==
    Map([success |-> PyTrue, data |-> Map([result |-> Map([result |-> Lst(list)])])])

\* bodies that are valid JSON but not an envelope with the payload in place:
\* null, a list, a string, and an envelope whose data.result is a list
OddBodies ==
    { None, Lst(<<>>), Str(<<"x">>),
      Map([success |-> PyTrue, data |-> Map([result |-> Lst(<<>>)])]) }

FailedEnvelope == Map([success |-> PyFalse, code |-> Whole(10001)])

SearchResponses ==
    { Response("timeout", None), Response("network_error", None),
      Response("not_json", None),
      Response("json", FailedEnvelope),
      Response("json", Map([success |-> PyTrue])) }
    \cup {Response("json", body) : body \in OddBodies}
    \cup {Response("json", SuccessEnvelope(l)) : l \in SearchProductLists}

\* a detail payload with both merged fields, and one with images only
FullDetail == Map([images |-> Lst(<<Str(<<"u">>)>>), description |-> Str(<<"d">>)])
ImagesDetail == Map([images |-> Lst(<<Str(<<"u">>)>>)])

\* what the transport answers to the endpoints other than search
EndpointResponses ==
    { Response("timeout", None), Response("network_error", None),
      Response("not_json", None),
      Response("json", FailedEnvelope),
      Response("json", Map([success |-> PyTrue])),
      Response("json", Map([success |-> PyTrue, data |-> Map(EmptyDict)])),
      Response("json", Map([success |-> PyTrue, data |-> FullDetail])) }
    \cup {Response("json", body) : body \in OddBodies}

\* the endpoint functions that hand back what safe_post_json returned
PassThroughNames ==
    {"update_order_status", "cancel_order", "get_order_list", "get_order_detail",
     "get_stock_list", "create_porder", "update_porder_status", "cancel_porder",
     "get_porder_list", "get_porder_detail", "get_logistics_track"}

\* items for enrichment: without identifier, with an empty, a null and a
\* string identifier, with other fields, and one that was enriched before
IdA == <<"a">>
IdB == <<"b">>
IdNone == <<"N", "o", "n", "e">>
OldImages == Lst(<<Str(<<"o">>)>>)

EnrichProducts ==
    { EmptyDict,
      [goodsId |-> Str(<<>>)],
      [goodsId |-> Str(IdA), title |-> Str(<<"t">>)],
      [goodsId |-> Str(IdB), shopType |-> Str(<<"1", "6", "8", "8">>)],
      [goodsId |-> None, title |-> Str(<<"t">>)],
      [goodsId |-> Str(IdA), detailImages |-> OldImages, detailDescription |-> Str(<<"o">>)] }

\* a longer list: position i has an identifier ("a" at odd positions, "b" at
\* even ones) where has[i], and none elsewhere
Shaped(has) ==
    [i \in DOMAIN has |->
        IF has[i] THEN [goodsId |-> Str(IF i % 2 = 1 THEN IdA ELSE IdB)] ELSE EmptyDict]

EnrichLists ==
    Lists(EnrichProducts, MaxProducts)
    \cup {Shaped(has) : has \in UNION {[1..k -> BOOLEAN] : k \in 3..MaxEnrichProducts}}

Limits == {None, Whole(0), Whole(1), Whole(2), Whole(-1)}

\* what the callback does for an identifier: a detail, nothing, or it raises
DetailOutcomes == {Returns(FullDetail), Returns(None), Raises("AttributeError")}

DetailFns ==
    [{IdA, IdB, IdNone} -> DetailOutcomes]
    \cup {[id \in {IdA, IdB, IdNone} |-> Returns(ImagesDetail)]}

\* the run() inputs: the identifiers of the fixture, the answers of the
\* detail endpoint, and the values of --detail-limit
\* the entries of porder_file
PorderFiles ==
    { [name |-> TRUE, file |-> "absent"],
      [name |-> TRUE, file |-> "readable"],
      [name |-> FALSE, file |-> "readable"],
      [name |-> FALSE, file |-> "unreadable"],
      [name |-> FALSE, file |-> "empty"] }

\* the transport of create_porder may also raise what safe_post_json does
\* not catch
PorderResponses == EndpointResponses \cup {Response("raised", None)}

FixtureIds == {<<"1">>, <<"2">>, <<"3">>}

DetailResponses ==
    { Response("json", Map([success |-> PyTrue, data |-> FullDetail])),
      Response("timeout", None),
      Response("json", Lst(<<>>)) }

DetailLimits == {-1, 0, 2, 5}

RunConfigs ==
    { NoFilters,
      [NoFilters EXCEPT !.jpy_price_min = Whole(1000), !.jpy_price_max = Whole(5000)] }

SearchConfigs ==
    { [NoFilters EXCEPT !.jpy_price_min = jpy[1], !.jpy_price_max = jpy[2],
                        !.strict_mode = strict] :
        jpy \in {<<None, None>>, <<Whole(1000), Whole(5000)>>, <<None, Whole(150)>>},
        strict \in BOOLEAN }

\* the items of a console: a title in capitals, a null titleT with a price
\* that is not a number, and a null titleC with a price given as a string
ConsoleProducts ==
    { [goodsId |-> Str(<<"1">>), titleC |-> Str(<<"B", "a", "g">>), goodsPrice |-> Whole(20)],
      [goodsId |-> Str(<<"2">>), titleC |-> Str(<<"b", "a", "n">>), titleT |-> None,
       goodsPrice |-> Str(<<"a", "b">>)],
      [goodsId |-> Str(<<"3">>), titleC |-> None, goodsPrice |-> Str(<<"2", "0">>)] }

\* what is typed after the command word
FilterArgs ==
    { <<>>,
      <<"t", "i", "t", "l", "e", "C">>,
      <<"t", "i", "t", "l", "e", "C", " ", "b", "a">>,
      <<"t", "i", "t", "l", "e", "C", " ", "B", "A">>,
      <<"t", "i", "t", "l", "e", "C", " ", "g">>,
      <<"t", "i", "t", "l", "e", "T", " ", "o", "n">>,
      <<"g", "o", "o", "d", "s", "P", "r", "i", "c", "e", " ", "2">>,
      <<"n", "a", "m", "e", " ", "b">> }
SortArgs ==
    { <<>>,
      <<"t", "i", "t", "l", "e", "C">>,
      <<"t", "i", "t", "l", "e", "C", " ", "d", "e", "s", "c">>,
      <<"g", "o", "o", "d", "s", "P", "r", "i", "c", "e">>,
      <<"g", "o", "o", "d", "s", "P", "r", "i", "c", "e", " ", "D", "E", "S", "C">> }
ListArgs ==
    { <<>>,
      <<"2", " ", "1">>,
      <<"x">>,
      <<"1", " ", "x">> }
ShowArgs ==
    { <<"1">>,
      <<"3">>,
      <<"x">> }
SearchArgs ==
    { <<>>,
      <<"B", "a">>,
      <<"n", "o", "n", "e">> }

(***************************************************************************)
(* The state: the last call made, its arguments and its outcome.           *)
(***************************************************************************)
VARIABLES
    op,        \* "idle", or the function that was called
    products,  \* the product list it was given
    cfg,       \* the filter arguments it was given
    response,  \* the transport outcome of a search or of another endpoint
    result,    \* what it returned: Ok(value), or Exc(name) if it raised
    filter_calls,   \* how many times search_products called apply_filters_fn
    limit,          \* the limit given to enrich_products_with_detail
    get_detail_fn,  \* its callback: the outcome for each identifier
    enriched,  \* the list as enrichment left it, the callback's calls, the exception
    args,      \* the arguments of run()
    status,    \* the exit status run() returned, None when there is none
    posts,     \* how many HTTP requests the call sent
    console,   \* the SearchResultConsole that is open
    line,      \* the command it was given last, and what was typed after it
    attachments,  \* the porder_file of create_porder and its file objects
    stages     \* the filters apply_product_filters called, with their lists

vars ==
    <<op, products, cfg, response, result, filter_calls, limit, get_detail_fn, enriched,
      args, status, posts, console, line, attachments, stages>>

\* the values of the variables a call does not use
NoCallback == <<>>
NoEnrichment == EnrichState(<<>>, <<>>, "")
NoArgs == [command |-> "", with_detail |-> FALSE, detail_limit |-> 0]
NoConsole == NewConsole(<<>>)
NoLine == [command |-> "", args |-> <<>>]
NoAttachments == [porder_file |-> <<>>, handles |-> <<>>]

Init ==
    /\ op = "idle"
    /\ products = <<>>
    /\ cfg = NoFilters
    /\ response = NoResponse
    /\ result = Ok(<<>>)
    /\ filter_calls = 0
    /\ limit = None
    /\ get_detail_fn = NoCallback
    /\ enriched = NoEnrichment
    /\ args = NoArgs
    /\ status = None
    /\ posts = 0
    /\ console = NoConsole
    /\ line = NoLine
    /\ attachments = NoAttachments
    /\ stages = <<>>

\* no enrichment, no run() and no console takes part in the call
Plain ==
    /\ console' = NoConsole
    /\ line' = NoLine
    /\ limit' = None
    /\ get_detail_fn' = NoCallback
    /\ enriched' = NoEnrichment
    /\ args' = NoArgs
    /\ status' = None

\* a call of a function of the filter engine that runs the stages of log
Traced(name, ps, c, r, log) ==
    /\ op' = name
    /\ products' = ps
    /\ cfg' = c
    /\ response' = NoResponse
    /\ result' = r
    /\ filter_calls' = 0
    /\ posts' = 0
    /\ stages' = log
    /\ attachments' = NoAttachments
    /\ Plain

\* a call of a single function of the filter engine
Call(name, ps, c, r) == Traced(name, ps, c, r, <<>>)

FilterBySize ==
    /\ op = "idle"
    /\ \E ps \in Lists(SizeProducts, MaxProducts), ml \in MaxLengths, mw \in MaxWidths,
       mh \in MaxHeights, strict \in BOOLEAN :
        Call("filter_products_by_size", ps,
             [NoFilters EXCEPT !.max_length = ml, !.max_width = mw, !.max_height = mh,
                               !.strict_mode = strict],
             filter_products_by_size(ps, ml, mw, mh, strict))

FilterByInventory ==
    /\ op = "idle"
    /\ \E ps \in Lists(InventoryProducts, MaxProducts), mi \in MinInventories,
       strict \in BOOLEAN :
        Call("filter_products_by_inventory", ps,
             [NoFilters EXCEPT !.min_inventory = mi, !.strict_mode = strict],
             filter_products_by_inventory(ps, mi, strict))

FilterByDelivery ==
    /\ op = "idle"
    /\ \E ps \in Lists(DeliveryProducts, MaxProducts), md \in MaxDeliveryDays,
       strict \in BOOLEAN :
        Call("filter_products_by_delivery", ps,
             [NoFilters EXCEPT !.max_delivery_days = md, !.strict_mode = strict],
             filter_products_by_delivery(ps, md, strict))

FilterByShippingFee ==
    /\ op = "idle"
    /\ \E ps \in Lists(ShippingFeeProducts, MaxProducts), ms \in MaxShippingFees,
       strict \in BOOLEAN :
        Call("filter_products_by_shipping_fee", ps,
             [NoFilters EXCEPT !.max_shipping_fee = ms, !.strict_mode = strict],
             filter_products_by_shipping_fee(ps, ms, strict))

FilterByWeight ==
    /\ op = "idle"
    /\ \E ps \in Lists(WeightProducts, MaxProducts) \cup
              {<<[weight |-> Str(w)]>> : w \in WeightStrings},
       mw \in MaxWeights, strict \in BOOLEAN :
        Call("filter_products_by_weight", ps,
             [NoFilters EXCEPT !.max_weight = mw, !.strict_mode = strict],
             filter_products_by_weight(ps, mw, strict))

MainFilterByWeight ==
    /\ op = "idle"
    /\ \E ps \in Lists(WeightProducts, MaxProducts) \cup
              {<<[weight |-> Str(w)]>> : w \in WeightStrings},
       mw \in MaxWeights, strict \in BOOLEAN :
        Call("main.filter_products_by_weight", ps,
             [NoFilters EXCEPT !.max_weight = mw, !.strict_mode = strict],
             main_filter_products_by_weight(ps, mw, strict))

FilterByJpyPrice ==
    /\ op = "idle"
    /\ \E ps \in Lists(PriceProducts, MaxProducts), lo \in JpyPriceMins, hi \in JpyPriceMaxs,
       rate \in ExchangeRates, strict \in BOOLEAN :
        Call("filter_products_by_jpy_price", ps,
             [NoFilters EXCEPT !.jpy_price_min = lo, !.jpy_price_max = hi,
                               !.exchange_rate = rate, !.strict_mode = strict],
             filter_products_by_jpy_price(ps, lo, hi, rate, strict))

FilterByCategories ==
    /\ op = "idle"
    /\ \E ps \in Lists(CategoryProducts, MaxProducts), cats \in CategoryLists,
       subs \in SubcategoryLists, subsubs \in SubSubcategoryLists :
        Call("filter_products_by_categories", ps,
             [NoFilters EXCEPT !.categories = cats, !.subcategories = subs,
                               !.sub_subcategories = subsubs],
             filter_products_by_categories(ps, cats, subs, subsubs))

ApplyProductFilters ==
    /\ op = "idle"
    /\ \E ps \in Lists(PipelineProducts, MaxProducts), c \in PipelineConfigs :
        Traced("apply_product_filters", ps, c, apply_product_filters(ps, c),
               StageLog(Stages(c), ps, c))

CollectCategories ==
    /\ op = "idle"
    /\ \E ps \in Lists(CategoryProducts, MaxFacetProducts) :
        Call("collect_categories_from_products", ps, NoFilters,
             Ok(collect_categories_from_products(ps)))

GetProductPriceInJpy ==
    /\ op = "idle"
    /\ \E p \in PriceProducts \cup {[price |-> Str(w)] : w \in PriceStrings},
       rate \in ExchangeRates :
        Call("get_product_price_in_jpy", <<p>>, [NoFilters EXCEPT !.exchange_rate = rate],
             Ok(get_product_price_in_jpy(p, rate)))

\* a search: the transport answers, the function calls apply_filters_fn n
\* times and returns
Search(name, resp, c, r, n) ==
    /\ op' = name
    /\ products' = <<>>
    /\ cfg' = c
    /\ response' = resp
    /\ result' = r
    /\ filter_calls' = n
    /\ posts' = PostAttempts(resp)
    /\ stages' = <<>>
    /\ attachments' = NoAttachments
    /\ Plain

\* a library caller, which may or may not pass apply_product_filters
SearchProducts ==
    /\ op = "idle"
    /\ \E resp \in SearchResponses, c \in SearchConfigs, fn \in BOOLEAN :
        Search(IF fn THEN "search_products+filters" ELSE "search_products", resp, c,
               search_products(resp, c, fn), FilterCalls(safe_post_json(resp), fn))

CliSearch ==
    /\ op = "idle"
    /\ \E resp \in SearchResponses, c \in SearchConfigs :
        Search("cli_search", resp, c, cli_search(resp, c), 0)

GuiSearch ==
    /\ op = "idle"
    /\ \E resp \in SearchResponses, c \in SearchConfigs :
        Search("gui_search", resp, c, gui_search(resp, c), 0)

\* a call of an endpoint function other than search_products
CallEndpoint(name, resp) ==
    /\ op' = name
    /\ products' = <<>>
    /\ cfg' = NoFilters
    /\ response' = resp
    /\ result' = Endpoint(name, resp)
    /\ filter_calls' = 0
    /\ posts' = PostAttempts(resp)
    /\ stages' = <<>>
    /\ attachments' = NoAttachments
    /\ Plain

GetProductDetail ==
    /\ op = "idle"
    /\ \E resp \in EndpointResponses : CallEndpoint("get_product_detail", resp)

GetImageId ==
    /\ op = "idle"
    /\ \E resp \in EndpointResponses : CallEndpoint("get_image_id", resp)

CreateOrder ==
    /\ op = "idle"
    /\ \E resp \in EndpointResponses : CallEndpoint("create_order", resp)

GetLogistics ==
    /\ op = "idle"
    /\ \E resp \in EndpointResponses : CallEndpoint("get_logistics", resp)

GetTags ==
    /\ op = "idle"
    /\ \E resp \in EndpointResponses : CallEndpoint("get_tags", resp)

\* the order, delivery-order, stock and tracking functions that end with
\* "return safe_post_json(...)"
PassThrough ==
    /\ op = "idle"
    /\ \E name \in PassThroughNames, resp \in EndpointResponses : CallEndpoint(name, resp)

\* create_porder(..., porder_file=[...]): the attachments are opened, the
\* request is sent and the "finally" block runs
CreatePorder ==
    /\ op = "idle"
    /\ \E porder_file \in Lists(PorderFiles, MaxPorderFiles), resp \in PorderResponses :
        /\ op' = "create_porder"
        /\ products' = <<>>
        /\ cfg' = NoFilters
        /\ response' = resp
        /\ result' = create_porder_with_files(resp)
        /\ filter_calls' = 0
        /\ posts' = PostAttempts(resp)
        /\ stages' = <<>>
        /\ attachments' = [porder_file |-> porder_file,
                           handles |-> porder_files(porder_file, resp)]
        /\ Plain

\* a call of enrich_products_with_detail; e is what it leaves behind
Enrich(ps, l, fn, e) ==
    /\ op' = "enrich_products_with_detail"
    /\ products' = ps
    /\ cfg' = NoFilters
    /\ response' = NoResponse
    /\ result' = IF e.exc = "" THEN Ok(None) ELSE Exc(e.exc)
    /\ filter_calls' = 0
    /\ limit' = l
    /\ get_detail_fn' = fn
    /\ enriched' = e
    /\ args' = NoArgs
    /\ status' = None
    /\ posts' = 0
    /\ console' = NoConsole
    /\ line' = NoLine
    /\ attachments' = NoAttachments
    /\ stages' = <<>>

EnrichProductsWithDetail ==
    /\ op = "idle"
    /\ \E ps \in EnrichLists, l \in Limits, fn \in DetailFns :
        Enrich(ps, l, fn, enrich_products_with_detail(ps, fn, l))

\* a call of run(); s is what it leaves behind, n the requests it sent
Run(a, resp, c, fn, s, n) ==
    /\ op' = "run"
    /\ products' = <<>>
    /\ cfg' = c
    /\ response' = resp
    /\ result' = s.result
    /\ filter_calls' = 0
    /\ limit' = DetailLimit(a.detail_limit)
    /\ get_detail_fn' = fn
    /\ enriched' = s.enrich
    /\ args' = a
    /\ status' = s.status
    /\ posts' = n
    /\ console' = NoConsole
    /\ line' = NoLine
    /\ attachments' = NoAttachments
    /\ stages' = <<>>

\* run(["search", ...])
RunSearch ==
    /\ op = "idle"
    /\ \E resp \in SearchResponses, c \in RunConfigs, with_detail \in BOOLEAN,
       detail_limit \in DetailLimits, responses \in [FixtureIds -> DetailResponses] :
        Run([command |-> "search", with_detail |-> with_detail,
             detail_limit |-> detail_limit],
            resp, c, DetailCallback(responses),
            run("search", resp, c, with_detail, detail_limit, DetailCallback(responses)),
            PostAttempts(resp)
              + DetailPosts(run("search", resp, c, with_detail, detail_limit,
                                DetailCallback(responses)).enrich.calls, responses))

\* run() with another command
RunCommand ==
    /\ op = "idle"
    /\ \E command \in (Commands \cup {"categories"}) \ {"search"},
       resp \in EndpointResponses :
        Run([NoArgs EXCEPT !.command = command], resp, NoFilters, NoCallback,
            run(command, resp, NoFilters, FALSE, 0, NoCallback),
            CommandPosts(command, resp))

\* SearchResultConsole(products): the console is opened on a result list
OpenConsole ==
    /\ op = "idle"
    /\ \E ps \in Lists(ConsoleProducts, MaxConsoleProducts) :
        /\ op' = "console"
        /\ products' = ps
        /\ console' = NewConsole(ps)
        /\ UNCHANGED <<cfg, response, result, filter_calls, limit, get_detail_fn, enriched,
                       args, status, posts, line, attachments, stages>>

\* the command typed with a after it leaves the open console as c
Command(command, a, c) ==
    /\ console' = c
    /\ line' = [command |-> command, args |-> a]
    /\ UNCHANGED <<op, products, cfg, response, result, filter_calls, limit, get_detail_fn,
                   enriched, args, status, posts, attachments, stages>>

\* a console is open; after an exception the command loop is over
Commanding == op = "console" /\ console.exc = ""

DoFilter ==
    /\ Commanding
    /\ \E a \in FilterArgs : Command("filter", a, do_filter(console, a))

DoClear ==
    /\ Commanding
    /\ Command("clear", <<>>, do_clear(console))

DoSort ==
    /\ Commanding
    /\ \E a \in SortArgs : \E c \in do_sort(console, a) : Command("sort", a, c)

DoList ==
    /\ Commanding
    /\ \E a \in ListArgs : Command("list", a, do_list(console, a))

DoShow ==
    /\ Commanding
    /\ \E a \in ShowArgs : Command("show", a, do_show(console, a))

DoSearch ==
    /\ Commanding
    /\ \E a \in SearchArgs : Command("search", a, do_search(console, a))

DoStats ==
    /\ Commanding
    /\ Command("stats", <<>>, do_stats(console))

\* the caller is done with the result
Return ==
    /\ op # "idle"
    /\ op' = "idle"
    /\ products' = <<>>
    /\ cfg' = NoFilters
    /\ response' = NoResponse
    /\ result' = Ok(<<>>)
    /\ filter_calls' = 0
    /\ posts' = 0
    /\ stages' = <<>>
    /\ attachments' = NoAttachments
    /\ Plain

Next ==
    \/ FilterBySize
    \/ FilterByInventory
    \/ FilterByDelivery
    \/ FilterByShippingFee
    \/ FilterByWeight
    \/ MainFilterByWeight
    \/ FilterByJpyPrice
    \/ FilterByCategories
    \/ ApplyProductFilters
    \/ CollectCategories
    \/ GetProductPriceInJpy
    \/ SearchProducts
    \/ CliSearch
    \/ GuiSearch
    \/ GetProductDetail
    \/ GetImageId
    \/ CreateOrder
    \/ GetLogistics
    \/ GetTags
    \/ PassThrough
    \/ CreatePorder
    \/ EnrichProductsWithDetail
    \/ RunSearch
    \/ RunCommand
    \/ OpenConsole
    \/ DoFilter
    \/ DoClear
    \/ DoSort
    \/ DoList
    \/ DoShow
    \/ DoSearch
    \/ DoStats
    \/ Return

Spec == Init /\ [][Next]_vars

(***************************************************************************)
(* Properties of the filter engine, the price conversion and the search.   *)
(*                                                                         *)
(* The operators below state what the specification expects of an item or  *)
(* of a value; they read only the arguments and the result of a call.      *)
(***************************************************************************)
\* x is an element of the list seq
Member(x, seq) == \E j \in 1..Len(seq) : seq[j] = x
\* the elements of the list seq
Elements(seq) == {seq[i] : i \in 1..Len(seq)}

\* the first non-empty value a dict holds under the alternate names keys,
\* None when it holds none
FirstNonEmpty(d, keys) ==
    LET hits == {i \in 1..Len(keys) : keys[i] \in DOMAIN d /\ Truthy(d[keys[i]])}
    IN  IF hits = {} THEN None
        ELSE d[keys[CHOOSE i \in hits : \A j \in hits : i <= j]]

\* no filter field of the configuration c is given
AllAbsent(c) ==
    /\ c.categories = NoList /\ c.subcategories = NoList /\ c.sub_subcategories = NoList
    /\ c.max_length = None /\ c.max_width = None /\ c.max_height = None
    /\ c.max_weight = None /\ c.jpy_price_min = None /\ c.jpy_price_max = None
    /\ c.min_inventory = None /\ c.max_delivery_days = None /\ c.max_shipping_fee = None

\* C1: apply_product_filters called with every filter field absent returns
\* the input list unchanged, same items in the same order, in strict and
\* in lenient mode.
C1_UnconfiguredPipelineReturnsInput ==
    (op = "apply_product_filters" /\ AllAbsent(cfg)) =>
        (result.ok /\ result.v = products)

\* an unconfigured strict call on two different items, one of them without
\* any attribute
C1_Witness ==
    /\ op = "apply_product_filters" /\ AllAbsent(cfg) /\ cfg.strict_mode
    /\ Len(products) = 2 /\ products[1] = EmptyDict /\ products[2] # EmptyDict
    /\ result.ok

\* the numeric filters, the call in which each one's bound is configured
\* and the alternate field names under which each reads its attribute
NumericFilters ==
    {"filter_products_by_size", "filter_products_by_weight",
     "filter_products_by_inventory", "filter_products_by_delivery",
     "filter_products_by_shipping_fee", "filter_products_by_jpy_price"}

BoundConfigured(name, c) ==
    CASE name = "filter_products_by_size" ->
            c.max_length # None \/ c.max_width # None \/ c.max_height # None
      [] name = "filter_products_by_weight" -> c.max_weight # None
      [] name = "filter_products_by_inventory" -> c.min_inventory # None
      [] name = "filter_products_by_delivery" -> c.max_delivery_days # None
      [] name = "filter_products_by_shipping_fee" -> c.max_shipping_fee # None
      [] name = "filter_products_by_jpy_price" ->
            c.jpy_price_min # None \/ c.jpy_price_max # None

AttributeNames(name) ==
    CASE name = "filter_products_by_size" -> {"dimensions", "size", "specs"}
      [] name = "filter_products_by_weight" ->
            {"weight", "product_weight", "net_weight", "gross_weight"}
      [] name = "filter_products_by_inventory" -> {"inventory", "stock", "quantity"}
      [] name = "filter_products_by_delivery" ->
            {"delivery_days", "shipping_days", "delivery_time"}
      [] name = "filter_products_by_shipping_fee" ->
            {"shipping_fee", "shipping_cost", "delivery_fee"}
      [] name = "filter_products_by_jpy_price" ->
            {"goodsPrice", "price", "productPrice", "salePrice", "marketPrice"}

LacksAttribute(product, name) == AttributeNames(name) \cap DOMAIN product = {}

\* C2: in every numeric filter whose bound is configured, an item that
\* lacks the attribute under every alternate field name is kept in lenient
\* mode and removed in strict mode.
C2_MissingDataPolicy ==
    \A name \in NumericFilters :
        (op = name /\ BoundConfigured(name, cfg) /\ result.ok) =>
            \A i \in 1..Len(products) :
                LacksAttribute(products[i], name) =>
                    (Member(products[i], result.v) <=> ~cfg.strict_mode)

\* the item's category metadata: what it holds under "category" or
\* "categoryInfo"
CategoryMetadata(product) == FirstNonEmpty(product, <<"category", "categoryInfo">>)

AnyAllowList(c) ==
    ListTruthy(c.categories) \/ ListTruthy(c.subcategories)
        \/ ListTruthy(c.sub_subcategories)

\* C3: whenever some allow-list is non-empty, an item without category
\* metadata is in the list the category filter returns, and in the list the
\* pipeline returns when only allow-lists are configured; the category
\* filter does not read strict_mode.
C3_UncategorisedItemsKept ==
    /\ (op = "filter_products_by_categories" /\ AnyAllowList(cfg) /\ result.ok) =>
          \A i \in 1..Len(products) :
              CategoryMetadata(products[i]) = None => Member(products[i], result.v)
    /\ (op = "apply_product_filters" /\ AnyAllowList(cfg) /\ result.ok
            /\ AllAbsent([cfg EXCEPT !.categories = NoList])) =>
          \A i \in 1..Len(products) :
              CategoryMetadata(products[i]) = None => Member(products[i], result.v)

\* the category filter, given an allow-list, removes an item with metadata
\* and keeps the one without
C3_Witness ==
    /\ op = "filter_products_by_categories" /\ AnyAllowList(cfg) /\ result.ok
    /\ Len(products) = 2 /\ CategoryMetadata(products[1]) = None
    /\ result.v = <<products[1]>>

\* C4: a successful search returns to the CLI and to the GUI the raw list
\* passed through the filter engine; on the fixture of source prices
\* 100 / 1000 / 10 with jpy_price_min = 1000, jpy_price_max = 5000 and rate 20
\* exactly the item that converts to 2000 is returned.
C4_SurfacesReceiveFilteredList ==
    \A l \in SearchProductLists :
        (op \in {"cli_search", "gui_search"}
            /\ response = Response("json", SuccessEnvelope(l))) =>
            /\ result = AsList(apply_product_filters(l, cfg))
            /\ (l = PriceFixture /\ cfg.jpy_price_min = Whole(1000)
                    /\ cfg.jpy_price_max = Whole(5000) /\ cfg.exchange_rate = 20 * Scale) =>
                  result = Ok(Lst(<<PriceFixture[1]>>))

\* the filters of src/rakumart/filters.py and the pipeline over them
FilterFunctions ==
    NumericFilters \cup {"filter_products_by_categories", "apply_product_filters"}

\* C5: no filter ever raises: whatever the items hold, a call of a filter
\* or of the pipeline returns a list.
C5_FiltersNeverRaise == op \in FilterFunctions => result.ok

\* the string without anything but its digits and points: currency symbols
\* and comma separators removed
DigitsAndPoints(s) == SelectSeq(s, LAMBDA ch : IsDigit(ch) \/ ch = ".")

\* C6: get_product_price_in_jpy of a string price is the number left after
\* stripping currency symbols and comma separators, times the exchange rate:
\* the yen-sign price 1,234.50 at rate 20.0 yields 24690.0.
C6_StringPriceStrippedAndConverted ==
    (op = "get_product_price_in_jpy" /\ DOMAIN products[1] = {"price"}
        /\ products[1].price.t = "str") =>
        /\ (ParseFloat(DigitsAndPoints(products[1].price.s)).ok
                /\ (products[1].price.s = PriceYen1234_50
                        \/ \A i \in 1..Len(products[1].price.s) :
                               products[1].price.s[i] # ",")) =>
              result.v = Num(Mul(ParseFloat(DigitsAndPoints(products[1].price.s)).v,
                                 cfg.exchange_rate))
        /\ (products[1].price.s = PriceYen1234_50 /\ cfg.exchange_rate = 20 * Scale) =>
              result.v = Num(24690 * Scale)

\* the weight an item carries under one of the alternate field names
WeightOf(product) ==
    FirstNonEmpty(product, <<"weight", "product_weight", "net_weight", "gross_weight">>)

\* the leading run of digits and points of a weight string, and the unit
\* written after it
NumberLength(w) ==
    CHOOSE n \in 0..Len(w) :
        /\ \A i \in 1..n : IsDigit(w[i]) \/ w[i] = "."
        /\ n < Len(w) => ~(IsDigit(w[n + 1]) \/ w[n + 1] = ".")
UnitOf(w) == Lower(Strip(SubSeq(w, NumberLength(w) + 1, Len(w))))

\* the grams the specification assigns to a weight string: a kg suffix
\* multiplies by 1000, a pound suffix by 453.592, a g suffix leaves the
\* number, and a bare number above 10 is read as kilograms; None for any
\* other string
GramsOfUnit(number, unit) ==
    IF ~number.ok THEN None
    ELSE IF unit = <<"k", "g">> THEN Num(Mul(number.v, 1000 * Scale))
    ELSE IF unit \in {<<"l", "b">>, <<"l", "b", "s">>} THEN Num(Mul(number.v, GramsPerPound))
    ELSE IF unit = <<"g">> THEN Num(number.v)
    ELSE IF unit = <<>> /\ number.v > 10 * Scale THEN Num(Mul(number.v, 1000 * Scale))
    ELSE None

SpecifiedGrams(w) == GramsOfUnit(ParseFloat(SubSeq(w, 1, NumberLength(w))), UnitOf(w))

\* the decision the specification expects for a string weight w it assigns
\* grams to
WithinWeight(grams, max_weight) == grams.n <= max_weight.n

\* C7: the weight filter compares string weights in grams: "1.5kg" as 1500,
\* "2 lbs" as about 907.18, "500g" as 500, a bare "15" as 15000, and every
\* pound-suffixed value times 453.592; an item with such a weight is kept
\* exactly when its grams are at most max_weight.
C7_WeightsComparedInGrams ==
    (op \in {"filter_products_by_weight", "main.filter_products_by_weight"}
        /\ cfg.max_weight # None /\ result.ok) =>
        \A i \in 1..Len(products) :
            (WeightOf(products[i]).t = "str"
                /\ SpecifiedGrams(WeightOf(products[i]).s) # None) =>
                (Member(products[i], result.v)
                    <=> WithinWeight(SpecifiedGrams(WeightOf(products[i]).s), cfg.max_weight))

\* p is within the configured range: both ends inclusive, an absent bound
\* no constraint
InClosedRange(p, lo, hi) == (lo = None \/ lo.n <= p.n) /\ (hi = None \/ p.n <= hi.n)

\* C8: filter_products_by_jpy_price keeps an item whose price can be
\* extracted if and only if its converted price p satisfies min <= p <= max,
\* both ends inclusive and an absent bound unconstrained, in both modes.
C8_PriceKeptIffInRange ==
    (op = "filter_products_by_jpy_price" /\ result.ok) =>
        \A i \in 1..Len(products) :
            get_product_price_in_jpy(products[i], cfg.exchange_rate) # None =>
                (Member(products[i], result.v)
                    <=> InClosedRange(get_product_price_in_jpy(products[i], cfg.exchange_rate),
                                      cfg.jpy_price_min, cfg.jpy_price_max))

\* the alternate names of the three category levels
MainCategoryNames == <<"category", "mainCategory", "yiji">>
SubcategoryNames == <<"subcategory", "subCategory", "erji">>
SubSubcategoryNames == <<"subSubcategory", "sub_subcategory", "sanji">>

\* the allow-list is empty or absent, or holds the item's value at its level
Allows(allow_list, metadata, names) ==
    ListTruthy(allow_list) => InList(FirstNonEmpty(metadata.m, names), allow_list)

\* C9: the category filter keeps an item that carries category metadata if
\* and only if, for every level whose allow-list is non-empty, the item's
\* value at that level is in the allow-list (AND across the levels).
C9_CategoryKeptIffEveryListAllows ==
    (op = "filter_products_by_categories" /\ result.ok) =>
        \A i \in 1..Len(products) :
            CategoryMetadata(products[i]).t = "map" =>
                (Member(products[i], result.v)
                    <=> /\ Allows(cfg.categories, CategoryMetadata(products[i]),
                                  MainCategoryNames)
                        /\ Allows(cfg.subcategories, CategoryMetadata(products[i]),
                                  SubcategoryNames)
                        /\ Allows(cfg.sub_subcategories, CategoryMetadata(products[i]),
                                  SubSubcategoryNames))

\* with two allow-lists given, one item is in both and kept and another is
\* in the first only and removed
C9_Witness ==
    /\ op = "filter_products_by_categories" /\ result.ok
    /\ ListTruthy(cfg.categories) /\ ListTruthy(cfg.subcategories)
    /\ Len(products) = 2 /\ result.v = <<products[1]>>
    /\ CategoryMetadata(products[1]).t = "map" /\ CategoryMetadata(products[2]).t = "map"
    /\ Allows(cfg.categories, CategoryMetadata(products[2]), MainCategoryNames)
    /\ ~Allows(cfg.subcategories, CategoryMetadata(products[2]), SubcategoryNames)

\* the non-empty values the items of a list show at one level; a category
\* written as a plain string is a value of the first level
ObservedOf(metadata, names, plain) ==
    IF metadata.t = "map" THEN {FirstNonEmpty(metadata.m, names)} \ {None}
    ELSE IF metadata.t = "str" /\ plain THEN {metadata}
    ELSE {}

Observed(items, names, plain) ==
    UNION {ObservedOf(CategoryMetadata(items[i]), names, plain) : i \in 1..Len(items)}

\* the list is in ascending order without duplicates
Ascending(seq) == \A i, j \in 1..Len(seq) : i < j => StrLess(seq[i].s, seq[j].s)

\* the list is the sorted, deduplicated list of the values in the set
SortedListOf(seq, values) == Ascending(seq) /\ Elements(seq) = values

\* C10: collect_categories_from_products returns, for each of the three
\* levels, exactly the distinct non-empty values observed in the list, sorted
\* and without duplicates; an item without category data contributes nothing.
C10_FacetsAreTheObservedValues ==
    op = "collect_categories_from_products" =>
        /\ SortedListOf(result.v.categories, Observed(products, MainCategoryNames, TRUE))
        /\ SortedListOf(result.v.subcategories, Observed(products, SubcategoryNames, FALSE))
        /\ SortedListOf(result.v.sub_subcategories,
                        Observed(products, SubSubcategoryNames, FALSE))

\* four items, one without category data and two showing the same value,
\* yield two categories
C10_Witness ==
    /\ op = "collect_categories_from_products"
    /\ Len(products) = 4 /\ products[4] = EmptyDict
    /\ products[1] # products[2]
    /\ CategoryMetadata(products[1]).t = "map" /\ CategoryMetadata(products[2]).t = "str"
    /\ result.v.categories = <<CatA, CatB>>

(***************************************************************************)
(* The endpoint functions, enrichment and run().                           *)
(***************************************************************************)
\* the transport gave no decodable answer
TransportFailed == response.kind \in {"timeout", "network_error", "not_json"}

\* the calls of search_products, by a library caller, the CLI and the GUI
SearchCalls == {"search_products", "search_products+filters", "cli_search", "gui_search"}

\* the endpoint functions other than search_products
EndpointNames ==
    {"get_product_detail", "get_image_id", "create_order", "get_logistics", "get_tags"}
    \cup PassThroughNames

\* the call returned an empty list
ReturnedEmptyList == result.ok /\ result.v = Lst(<<>>)
\* the call returned None
ReturnedNone == result.ok /\ result.v = None

\* C11: when the transport times out, fails or answers with a body that is
\* not JSON, search_products returns [] and every other endpoint function
\* returns None, none of them raises, search_products does not call the
\* filter callback, and run() starts no enrichment.
C11_TransportFailureGivesEmptyResult ==
    TransportFailed =>
        /\ op \in SearchCalls => ReturnedEmptyList /\ filter_calls = 0
        /\ op \in EndpointNames => ReturnedNone
        /\ (op = "run" /\ args.command = "search") =>
               /\ ReturnedEmptyList
               /\ status # None
               /\ enriched.calls = <<>>
        /\ (op = "run" /\ args.command \in {"detail", "image", "logistics", "tags"}) =>
               ReturnedNone /\ status # None

\* the search command, asked for details, meets a timeout
C11_Witness ==
    /\ op = "run" /\ args.command = "search" /\ args.with_detail
    /\ response.kind = "timeout"
    /\ ReturnedEmptyList /\ enriched.calls = <<>>

\* the transport delivered an envelope whose success is false
SuccessFalse ==
    /\ response.kind = "json"
    /\ response.body.t = "map"
    /\ "success" \in DOMAIN response.body.m
    /\ ~Truthy(response.body.m["success"])

\* C12: every endpoint function (search, detail, image-id, logistics list,
\* tag list, order and porder create / update-status / cancel / list /
\* detail, stock list, logistics tracking) answers an envelope whose success
\* is false with "no result", [] for search and None for the others, and
\* never hands the failed envelope back.
C12_FailedEnvelopeGivesNoResult ==
    (op \in SearchCalls \cup EndpointNames /\ SuccessFalse) =>
        IF op \in SearchCalls THEN ReturnedEmptyList ELSE ReturnedNone

\* the body decoded, and the payload is not where the function looks for it:
\* data.result.result for a search, data for detail and image-id
PayloadAbsent ==
    /\ response.kind = "json"
    /\ IF op \in SearchCalls THEN ~ResultOf(response.body).ok
       ELSE ~Subscript(response.body, "data").ok

\* C13: when the body decodes as JSON but holds no payload at the documented
\* nesting, a body that is valid JSON but not an object included,
\* search_products returns [] and get_product_detail and get_image_id return
\* None; no exception reaches the caller.
C13_AbsentPayloadGivesNoResult ==
    (op \in SearchCalls \cup {"get_product_detail", "get_image_id"} /\ PayloadAbsent) =>
        IF op \in SearchCalls THEN ReturnedEmptyList ELSE ReturnedNone

\* the item carries an identifier that is not empty
HasIdentifier(item) == "goodsId" \in DOMAIN item /\ Truthy(item["goodsId"])

\* the positions of the list the callback was called for
CalledPositions == {enriched.calls[k].pos : k \in 1..Len(enriched.calls)}

\* the calls were made in list order, at most one for a position
CallsInListOrder ==
    \A j, k \in 1..Len(enriched.calls) : j < k => enriched.calls[j].pos < enriched.calls[k].pos

\* the positions the limit lets the function consider
Considered ==
    IF limit.t = "none" \/ limit.n = 0 THEN 1..Len(products)
    ELSE {i \in 1..Len(products) : i * Scale <= limit.n}

\* C14: enrich_products_with_detail calls the callback only for items that
\* have a non-empty identifier, in list order and at most once per item; a
\* positive limit makes it consider only the first `limit` positions, so it
\* makes at most `limit` calls, and a limit of 0 or no limit makes it consider
\* every item.  Stated for the calls that return (C16 is about the others).
C14_CallbackCalledForIdentifiedItemsWithinLimit ==
    (op = "enrich_products_with_detail" /\ result.ok /\ (limit.t = "none" \/ limit.n >= 0)) =>
        /\ CallsInListOrder
        /\ CalledPositions = {i \in Considered : HasIdentifier(products[i])}
        /\ limit.t = "num" /\ limit.n > 0 => Len(enriched.calls) * Scale <= limit.n

\* no item of the list carries a null identifier (see C14 for those)
NoNullIdentifier ==
    \A i \in 1..Len(products) :
        "goodsId" \in DOMAIN products[i] => products[i]["goodsId"].t # "none"

\* the positions of the first n items that have an identifier
FirstIdentified(n) ==
    {i \in 1..Len(products) :
        /\ HasIdentifier(products[i])
        /\ Cardinality({j \in 1..i : HasIdentifier(products[j])}) <= n}

\* the calls a positive limit is about: they return, and the list holds no
\* null identifier
LimitedEnrichment ==
    /\ op = "enrich_products_with_detail" /\ result.ok
    /\ limit.t = "num" /\ limit.n > 0
    /\ NoNullIdentifier

IdentifierAt(i) == PyStr(GoodsIdOf(products[i]))

\* the callback returns nothing, or raises, for the item at position i
FetchFails(i) ==
    get_detail_fn[IdentifierAt(i)].raises # "" \/ ~Truthy(get_detail_fn[IdentifierAt(i)].value)

\* C16: the failure of one item's detail fetch never fails the batch: whether
\* the callback returns nothing or raises for an item, the function still
\* attempts the later items, returns normally, and leaves that item without
\* the merged fields.
C16_FailedFetchDoesNotFailBatch ==
    op = "enrich_products_with_detail" =>
        /\ result.ok
        /\ \A i \in Considered : IdentifierAt(i) # <<>> => i \in CalledPositions
        /\ \A i \in CalledPositions : FetchFails(i) => enriched.items[i] = products[i]

\* every field the item had keeps its value in the item as it is now
KeepsFields(before, after) ==
    /\ DOMAIN before \subseteq DOMAIN after
    /\ \A k \in DOMAIN before : after[k] = before[k]

\* C17: enrichment only adds fields: the list holds the same items in the same
\* order, every field an item had before the call keeps its previous value,
\* and the items outside the limit or without an identifier are untouched.
C17_EnrichmentOnlyAddsFields ==
    op = "enrich_products_with_detail" =>
        /\ Len(enriched.items) = Len(products)
        /\ \A i \in 1..Len(products) : KeepsFields(products[i], enriched.items[i])
        /\ \A i \in 1..Len(products) :
               (i \notin Considered \/ IdentifierAt(i) = <<>>) => enriched.items[i] = products[i]

\* C18: for every command that maps to an endpoint (search, detail, image,
\* logistics, tags, order, update-status, cancel, orders, order-detail, stock,
\* the porder commands, logistics tracking, categories), run() invokes the
\* operation and returns exit status 0 when its result is non-empty and a
\* non-zero status when the result is empty or null.
C18_ExitStatusTellsWhetherResultIsEmpty ==
    op = "run" =>
        /\ Invoked(args.command) # ""
        /\ result.ok
        /\ status.t = "num"
        /\ IF result.ok THEN (status.n = 0 <=> Truthy(result.v)) ELSE FALSE

\* the filters that compare one attribute with one bound, the alternate names
\* each reads the attribute under, and the bound each is given
ScalarFilters ==
    {"filter_products_by_inventory", "filter_products_by_delivery",
     "filter_products_by_shipping_fee", "filter_products_by_weight"}

ScalarNames(name) ==
    CASE name = "filter_products_by_inventory" -> <<"inventory", "stock", "quantity">>
      [] name = "filter_products_by_delivery" ->
            <<"delivery_days", "shipping_days", "delivery_time">>
      [] name = "filter_products_by_shipping_fee" ->
            <<"shipping_fee", "shipping_cost", "delivery_fee">>
      [] name = "filter_products_by_weight" ->
            <<"weight", "product_weight", "net_weight", "gross_weight">>

ScalarBound(name, c) ==
    CASE name = "filter_products_by_inventory" -> c.min_inventory
      [] name = "filter_products_by_delivery" -> c.max_delivery_days
      [] name = "filter_products_by_shipping_fee" -> c.max_shipping_fee
      [] name = "filter_products_by_weight" -> c.max_weight

\* the value a dict holds under the first of the names it holds, None when
\* it holds none of them
PresentValue(d, names) ==
    IF \A i \in 1..Len(names) : names[i] \notin DOMAIN d THEN None
    ELSE d[names[CHOOSE i \in 1..Len(names) :
                 /\ names[i] \in DOMAIN d
                 /\ \A j \in 1..(i - 1) : names[j] \notin DOMAIN d]]

\* the number v meets the bound of the filter: a minimum for inventory, a
\* maximum for the others
MeetsBound(name, v, bound) ==
    IF name = "filter_products_by_inventory" THEN v.n >= bound.n ELSE v.n <= bound.n

\* the item shows the filter a number
ShowsNumber(product, name) == PresentValue(product, ScalarNames(name)).t = "num"

\* that number meets the configured bound
Compliant(product, name) ==
    MeetsBound(name, PresentValue(product, ScalarNames(name)), ScalarBound(name, cfg))

\* a call of the filter with its bound configured
ScalarCall(name) == op = name /\ ScalarBound(name, cfg) # None /\ result.ok

\* C19: an item whose attribute is present and out of bound is removed by
\* the corresponding numeric filter in lenient mode as well as in strict
\* mode; for inventory, an item with a present inventory value v (any
\* integer, 0 included) is kept iff v >= the configured minimum, whatever
\* strict_mode is.
C19_OutOfBoundRemovedInBothModes ==
    \A name \in ScalarFilters :
        ScalarCall(name) =>
            \A i \in 1..Len(products) :
                ShowsNumber(products[i], name) =>
                    /\ ~Compliant(products[i], name) => ~Member(products[i], result.v)
                    /\ name = "filter_products_by_inventory" =>
                           (Member(products[i], result.v) <=> Compliant(products[i], name))

\* the three dimensions: the alternate names of each ("chang", "kuan" and
\* "gao" stand for the Chinese key names of the source) and its bound
DimensionNames ==
    <<<<"length", "l", "chang">>, <<"width", "w", "kuan">>, <<"height", "h", "gao">>>>

DimensionBounds(c) == <<c.max_length, c.max_width, c.max_height>>

\* the item holds "dimensions" as a mapping in which every dimension that
\* has a bound is a number within it
SizeCompliant(product, c) ==
    /\ "dimensions" \in DOMAIN product
    /\ product["dimensions"].t = "map"
    /\ \A d \in 1..3 :
           DimensionBounds(c)[d] # None =>
               /\ PresentValue(product["dimensions"].m, DimensionNames[d]).t = "num"
               /\ PresentValue(product["dimensions"].m, DimensionNames[d]).n
                      <= DimensionBounds(c)[d].n

\* C20: in strict mode every fully-specified, fully-compliant item survives:
\* an item whose attribute is present and within the configured bound is kept
\* by the corresponding filter when strict_mode is true, for every present
\* numeric value, 0 included (a shipping fee of 0 against any maximum >= 0,
\* delivery days 0, weight 0, a dimension of 0).
C20_StrictModeKeepsCompliantItems ==
    /\ \A name \in ScalarFilters :
           (ScalarCall(name) /\ cfg.strict_mode) =>
               \A i \in 1..Len(products) :
                   (ShowsNumber(products[i], name) /\ Compliant(products[i], name)) =>
                       Member(products[i], result.v)
    /\ (op = "filter_products_by_size" /\ cfg.strict_mode /\ result.ok) =>
           \A i \in 1..Len(products) :
               SizeCompliant(products[i], cfg) => Member(products[i], result.v)

(***************************************************************************)
(* The delivery filter, the order of the stages, and the relations between *)
(* the results of the filters.                                             *)
(***************************************************************************)
\* the digits s starts with
RECURSIVE DigitRun(_)
DigitRun(s) ==
    IF s = <<>> \/ ~IsDigit(Head(s)) THEN <<>> ELSE <<Head(s)>> \o DigitRun(Tail(s))

\* the first number found in s, as its digits; <<>> when s holds no digit
RECURSIVE FirstNumber(_)
FirstNumber(s) ==
    IF s = <<>> THEN <<>>
    ELSE IF IsDigit(Head(s)) THEN DigitRun(s)
    ELSE FirstNumber(Tail(s))

\* the value an item shows the delivery filter
DeliveryValue(product) ==
    PresentValue(product, ScalarNames("filter_products_by_delivery"))

\* the delivery value is a string that holds no number
NoNumber(v) == v.t = "str" /\ FirstNumber(v.s) = <<>>

\* the days a delivery value stands for: the integer itself, or the first
\* number found in the string
DeliveryDays(v) == IF v.t = "num" THEN v.n ELSE DigitsValue(FirstNumber(v.s)) * Scale

\* what the claim lets the filter do with a delivery value
KeptByDays(v, max_delivery_days, strict_mode) ==
    IF NoNumber(v) THEN ~strict_mode ELSE DeliveryDays(v) <= max_delivery_days.n

\* C21: the delivery filter takes the delivery value as an integer or, for a
\* string, as the first number found in it ("3-5 days" is 3), and keeps the
\* item iff that number <= max_delivery_days; a string that holds no number
\* is Unknown: kept in lenient mode, removed in strict mode.  Stated for the
\* bounds the filter enforces (C27 is about a bound of 0).
C21_DeliveryReadsFirstNumber ==
    (op = "filter_products_by_delivery" /\ Truthy(cfg.max_delivery_days) /\ result.ok) =>
        \A i \in 1..Len(products) :
            DeliveryValue(products[i]).t \in {"num", "str"} =>
                (Member(products[i], result.v)
                    <=> KeptByDays(DeliveryValue(products[i]), cfg.max_delivery_days,
                                   cfg.strict_mode))

\* the order in which the specification lists the stages
ListedOrder ==
    <<"categories", "jpy_price", "size", "weight", "inventory", "delivery",
      "shipping_fee">>

\* the same stages with the weight filter at the end
WeightLastOrder ==
    <<"categories", "jpy_price", "size", "inventory", "delivery", "shipping_fee",
      "weight">>

\* the place of a stage in an order
Position(name, order) == CHOOSE i \in 1..Len(order) : order[i] = name

\* the stages of log ran in the given order, none of them twice
InOrder(log, order) ==
    \A i, j \in 1..Len(log) :
        i < j => Position(log[i].stage, order) < Position(log[j].stage, order)

\* each stage received the list the stage before it produced, the first one
\* the list of the caller
Chained(log, ps) ==
    \A i \in 1..Len(log) : log[i].input = IF i = 1 THEN ps ELSE log[i - 1].output

\* the bound that makes a stage of the last four run
StageBound(name, c) ==
    CASE name = "inventory" -> c.min_inventory
      [] name = "delivery" -> c.max_delivery_days
      [] name = "shipping_fee" -> c.max_shipping_fee
      [] name = "weight" -> c.max_weight

\* a run that no exception ended called the first three stages, and each of
\* the last four iff its bound is given; what it returns is the last list
Complete(log, c, r) ==
    /\ \A name \in {"categories", "jpy_price", "size"} :
           \E i \in 1..Len(log) : log[i].stage = name
    /\ \A name \in {"inventory", "delivery", "shipping_fee", "weight"} :
           (\E i \in 1..Len(log) : log[i].stage = name) <=> (StageBound(name, c).t # "none")
    /\ r.v = log[Len(log)].output

RECURSIVE ApplyInOrder(_, _, _)
ApplyInOrder(order, ps, c) ==
    IF order = <<>> THEN Ok(ps)
    ELSE IF Stage(Head(order), ps, c).ok
         THEN ApplyInOrder(Tail(order), Stage(Head(order), ps, c).v, c)
         ELSE Stage(Head(order), ps, c)

\* an order moved round by k places
Rotated(order, k) ==
    [i \in 1..Len(order) |-> order[((i + k - 1) % Len(order)) + 1]]

\* an order read backwards
Reversed(order) == [i \in 1..Len(order) |-> order[Len(order) + 1 - i]]

\* the permutations of the seven filters that are compared: the listed order
\* and the order of the code, each moved round and read backwards
Orders ==
    UNION { {Rotated(o, k), Reversed(Rotated(o, k))} :
              o \in {ListedOrder, WeightLastOrder}, k \in 0..6 }

\* a filter, called on its own with the item alone, keeps it
KeepsOnItsOwn(name, product, c) ==
    /\ Stage(name, <<product>>, c).ok
    /\ Stage(name, <<product>>, c).v = <<product>>

KeptByEach(product, c) ==
    \A k \in 1..Len(ListedOrder) : KeepsOnItsOwn(ListedOrder[k], product, c)

\* the items of ps that every filter keeps on its own, in the order of ps
RECURSIVE KeptByAll(_, _)
KeptByAll(ps, c) ==
    IF ps = <<>> THEN <<>>
    ELSE (IF KeptByEach(Head(ps), c) THEN <<Head(ps)>> ELSE <<>>) \o KeptByAll(Tail(ps), c)

\* two calls ended the same way
SameOutcome(a, b) == a.ok = b.ok /\ a.exc = b.exc /\ (a.ok => a.v = b.v)

\* C23: the order of the filter stages does not change the final result:
\* for every product list and configuration, the seven filters applied in
\* any permutation retain the same items as apply_product_filters, namely
\* exactly the items that each individual filter keeps on its own.
C23_StageOrderDoesNotMatter ==
    op = "apply_product_filters" =>
        /\ \A order \in Orders : SameOutcome(ApplyInOrder(order, products, cfg), result)
        /\ result.ok => result.v = KeptByAll(products, cfg)

(***************************************************************************)
(* The transport, the console and the attachments of a delivery order.     *)
(***************************************************************************)
\* C24: there is no retry: one invocation of an endpoint function performs
\* exactly one HTTP POST, and whatever its outcome (success, timeout,
\* network error, undecodable body, success=false envelope) no second
\* request is issued for that invocation.  run() sends one request for the
\* function its command calls and one for each call of the detail callback.
C24_OnePostPerInvocation ==
    /\ op \in SearchCalls \cup EndpointNames => posts = 1
    /\ (op = "run" /\ Invoked(args.command) # "") => posts = 1 + Len(enriched.calls)

\* an endpoint function returned after its one request had timed out
C24_Witness ==
    /\ op \in EndpointNames
    /\ response.kind = "timeout"
    /\ posts = 1
    /\ result.ok

\* a is a sub-list of b: the elements of a are elements of b, as often at
\* most and in the same order
RECURSIVE IsSubsequence(_, _)
IsSubsequence(a, b) ==
    IF a = <<>> THEN TRUE
    ELSE IF b = <<>> THEN FALSE
    ELSE IF Head(a) = Head(b) THEN IsSubsequence(Tail(a), Tail(b))
    ELSE IsSubsequence(a, Tail(b))

\* the configuration c in lenient mode
Lenient(c) == [c EXCEPT !.strict_mode = FALSE]

\* the strict run returned a sub-list of what the lenient run returned,
\* unless one of the two raised
StrictWithinLenient(strict, lenient) ==
    LET s == strict
        l == lenient
    IN  (s.ok /\ l.ok) => IsSubsequence(s.v, l.v)

\* C25: strict mode can only remove more: for every product list and every
\* configuration on which neither run raises, the result of
\* apply_product_filters with strict_mode=true is a sub-list of its result
\* with strict_mode=false and the same other settings; so is the result of
\* each of its filters on that list.
C25_StrictRemovesMore ==
    (op = "apply_product_filters" /\ cfg.strict_mode) =>
        /\ StrictWithinLenient(result, apply_product_filters(products, Lenient(cfg)))
        /\ \A k \in 1..Len(ListedOrder) :
               StrictWithinLenient(Stage(ListedOrder[k], products, cfg),
                                   Stage(ListedOrder[k], products, Lenient(cfg)))

\* a strict run kept one item of two, the lenient run keeps both
C25_Witness ==
    /\ op = "apply_product_filters"
    /\ cfg.strict_mode
    /\ result.ok
    /\ Len(result.v) = 1
    /\ apply_product_filters(products, Lenient(cfg)).ok
    /\ apply_product_filters(products, Lenient(cfg)).v = products
    /\ Len(products) = 2

\* the functions of the filter engine that take a list and return a list
FilterNames ==
    {"filter_products_by_size", "filter_products_by_inventory",
     "filter_products_by_delivery", "filter_products_by_shipping_fee",
     "filter_products_by_weight", "filter_products_by_jpy_price",
     "filter_products_by_categories", "apply_product_filters"}

\* C26: every filter, and therefore apply_product_filters, returns a
\* subsequence of its input: each returned item is an item of the input
\* list, no item appears more often than in the input and the retained
\* items stand in the input order; inside apply_product_filters the same
\* holds of every stage, and the first stage is given the caller's list.
C26_FiltersReturnSubsequence ==
    (op \in FilterNames /\ result.ok) =>
        /\ IsSubsequence(result.v, products)
        /\ \A i \in 1..Len(stages) : IsSubsequence(stages[i].output, stages[i].input)
        /\ stages # <<>> => stages[1].input = products

\* the stages removed the first of two different items and kept the second
C26_Witness ==
    /\ op = "apply_product_filters"
    /\ result.ok
    /\ Len(products) = 2
    /\ products[1] # products[2]
    /\ result.v = <<products[2]>>
    /\ \E i \in 1..Len(stages) : Len(stages[i].output) < Len(stages[i].input)

\* the bound is the number 0
IsZero(bound) == bound = Whole(0)

\* the call of the JPY price filter with the bounds lo and hi in place of
\* the ones it was given
JpyPriceCall(lo, hi) ==
    filter_products_by_jpy_price(products, lo, hi, cfg.exchange_rate, cfg.strict_mode)

\* the item shows the filter a number greater than 0
ShowsPositive(product, name) ==
    ShowsNumber(product, name) /\ PresentValue(product, ScalarNames(name)).n > 0

\* C27: in filter_products_by_delivery, filter_products_by_inventory and
\* filter_products_by_jpy_price a bound equal to 0 behaves exactly like an
\* absent bound (max_delivery_days=0, min_inventory=0, jpy_price_min=0 or
\* jpy_price_max=0 remove nothing on that side), whereas
\* filter_products_by_weight and filter_products_by_shipping_fee enforce a
\* bound of 0 and remove every item that shows a number greater than 0.
C27_ZeroBoundPerFilter ==
    /\ \A name \in {"filter_products_by_delivery", "filter_products_by_inventory"} :
           (op = name /\ IsZero(ScalarBound(name, cfg))) =>
               result.ok /\ result.v = products
    /\ (op = "filter_products_by_jpy_price" /\ IsZero(cfg.jpy_price_min)) =>
           SameOutcome(result, JpyPriceCall(None, cfg.jpy_price_max))
    /\ (op = "filter_products_by_jpy_price" /\ IsZero(cfg.jpy_price_max)) =>
           SameOutcome(result, JpyPriceCall(cfg.jpy_price_min, None))
    /\ \A name \in {"filter_products_by_weight", "filter_products_by_shipping_fee"} :
           (op = name /\ IsZero(ScalarBound(name, cfg)) /\ result.ok) =>
               \A i \in 1..Len(products) :
                   ShowsPositive(products[i], name) => ~Member(products[i], result.v)

\* the weight filter, given the bound 0, removed an item that shows a weight
\* above 0 and kept the other item of its list
C27_Witness ==
    /\ op = "filter_products_by_weight"
    /\ IsZero(cfg.max_weight)
    /\ result.ok
    /\ Len(products) = 2
    /\ Len(result.v) = 1
    /\ \E i \in 1..2 : ShowsPositive(products[i], op)

\* C28: after any sequence of console commands (list, show, filter, clear,
\* sort, search, stats), every element of filtered_products is an element
\* of products, and the products list holds the same items in the same
\* order as at construction: sorting and filtering never reorder or shrink
\* the original list.
C28_ConsoleKeepsProducts ==
    op = "console" =>
        /\ console.products = products
        /\ \A i \in 1..Len(console.filtered_products) :
               Member(console.filtered_products[i], console.products)

\* a sort command has put the second of two items first in
\* filtered_products
C28_Witness ==
    /\ op = "console"
    /\ line.command = "sort"
    /\ Len(products) = 2
    /\ Len(console.filtered_products) = 2
    /\ console.filtered_products[1] = products[2]
    /\ products[1] # products[2]
    /\ console.products = products

\* what was typed after "filter" has a field and a value
WellFormed(a) == FirstBlank(a) > 1 /\ FirstBlank(a) < Len(a)

\* the field the item holds under the typed name contains the value,
\* whatever the case of the letters; a field that is missing or null
\* contains nothing
HoldsValue(p, field, value) ==
    /\ FieldKey(field) \in DOMAIN p
    /\ p[FieldKey(field)].t \in {"str", "num"}
    /\ Contains(Lower(PyStr(p[FieldKey(field)])), Lower(value))

\* the items of ps whose field contains the value, in the order of ps
RECURSIVE Holding(_, _, _)
Holding(ps, field, value) ==
    IF ps = <<>> THEN <<>>
    ELSE (IF HoldsValue(Head(ps), field, value) THEN <<Head(ps)>> ELSE <<>>)
         \o Holding(Tail(ps), field, value)

\* C29: console filters do not accumulate: after a well-formed
\* "filter <field> <value>" command, filtered_products is exactly the items
\* of the full products list whose field contains the value
\* (case-insensitive), in products order, whatever filters or sorts were
\* applied before, and current_page is 0.
C29_FilterStartsFromProducts ==
    (op = "console" /\ line.command = "filter" /\ WellFormed(line.args)) =>
        /\ console.filtered_products =
               Holding(console.products, SplitOnce(line.args)[1], SplitOnce(line.args)[2])
        /\ console.current_page = 0

\* C30: create_porder releases its attachments: every file it opened for a
\* porder_file entry is closed by the time create_porder returns or
\* propagates an exception from the transport call, whether the request
\* succeeded, failed or raised.
C30_AttachmentsAreClosed ==
    op = "create_porder" =>
        \A i \in 1..Len(attachments.porder_file) :
            /\ attachments.handles[i] # "open"
            /\ attachments.porder_file[i].file = "readable" =>
                   attachments.handles[i] = "closed"

\* the transport raised after two attachments were opened, and both are
\* closed
C30_Witness ==
    /\ op = "create_porder"
    /\ response.kind = "raised"
    /\ ~result.ok
    /\ Len(attachments.handles) = 2
    /\ \A i \in 1..2 : attachments.handles[i] = "closed"

====
